---- MODULE Spec2Model ----
(***************************************************************************)
(* A model of solar-rs: the shared AppState, the ephemeris updater task,   *)
(* the input loop of main, and the map renderer (put_pixel, draw_ring,     *)
(* render_map_block).                                                      *)
(*                                                                         *)
(* Numbers.  The program computes in f64, and so does the model: a double  *)
(* is its sign, exponent and 53-bit mantissa, and a product, a quotient, a *)
(* literal and a conversion give the double IEEE 754 binary64 gives (round *)
(* to nearest, ties to even).  The values the program reaches are far from *)
(* overflow and from the subnormals, and -0.0 compares, multiplies and     *)
(* rounds to a cell as 0.0 does, so neither is modelled.  Rust leaves the  *)
(* last bit of t.cos() and t.sin() to the platform's library, which is     *)
(* accurate to less than one unit in the last place: the call returns one  *)
(* of the two doubles next to the true value, and the model leaves open    *)
(* which.  A ring sample whose product with the radius rounds to different *)
(* cells for the two has both cells as outcomes.                           *)
(* Screen coordinates, counters and priorities are plain integers.         *)
(***************************************************************************)
EXTENDS Integers, Sequences, FiniteSets, TLC

VARIABLES
    bodies,          \* AppState.bodies: body index -> Option<Vec3>
    last_update_utc, \* AppState.last_update_utc: Option<label>
    status,          \* AppState.status
    use_unicode_icons, \* AppState.use_unicode_icons
    zoom,            \* AppState.zoom
    focus_index,     \* AppState.focus_index (0-based)
    upc,             \* updater: position in its loop
    now_label,       \* updater: the cycle's now_label (the cycle number stands for the time)
    bodies_snapshot, \* updater: the cycle's list of << name, id >> to fetch
    snap_i,          \* updater: number of entries of bodies_snapshot already fetched
    new_positions,   \* updater: the cycle's BTreeMap name -> Vec3
    cyc_status,      \* updater: the cycle's local `status`
    cycle,           \* updater: number of cycles started (the clock of now_label)
    fetched,         \* history: body -> Option<Vec3> of its last good fetch
    cyc_failed,      \* history: the << name, error >> of the fetches failed in this cycle
    failures,        \* history: number of fetches that failed in the run
    running,         \* main: the loop has not met 'q'
    last_key,        \* history: the last key handled by the input loop
    prev_view,       \* history: <<zoom, focus_index>> before the last key
    area,            \* the map panel's Rect: <<width, height>>
    grid,            \* render_map_block / put_pixel: the grid
    written,         \* history: cell -> the pixels put_pixel was handed for it
    last_op,         \* history: the last grid operation and its arguments
    prev_grid,       \* history: the grid before the last grid operation
    lock,            \* the Mutex around AppState: "free", or the task holding it
    mpc,             \* main: position in its loop
    pending,         \* main: the key event::read returned, to be handled
    snapshot,        \* main: the frame's clone of AppState
    nkeys,           \* history: keys handled under the lock
    nframes          \* history: frames drawn

vars == << bodies, last_update_utc, status, use_unicode_icons, zoom, focus_index,
           upc, now_label, bodies_snapshot, snap_i, new_positions, cyc_status, cycle,
           fetched, cyc_failed, failures, running, last_key, prev_view,
           area, grid, written, last_op, prev_grid,
           lock, mpc, pending, snapshot, nkeys, nframes >>

appVars == << bodies, last_update_utc, status, use_unicode_icons, zoom, focus_index >>
updVars == << upc, now_label, bodies_snapshot, snap_i, new_positions, cyc_status,
             cycle, fetched, cyc_failed, failures >>
keyVars == << running, last_key, prev_view >>
gridVars == << area, grid, written, last_op, prev_grid >>
syncVars == << lock, mpc, pending, snapshot, nkeys, nframes >>

----------------------------------------------------------------------------
(* Option<T>: None is the empty sequence, Some(v) the one-element sequence. *)

None == << >>
Some(v) == << v >>
IsSome(o) == Len(o) = 1
Unwrap(o) == o[1]
\* Option::or
OrElse(a, b) == IF IsSome(a) THEN a ELSE b

----------------------------------------------------------------------------
(* Integers: i32 and usize helpers.                                         *)

Abs(a) == IF a < 0 THEN -a ELSE a
Min(a, b) == IF a < b THEN a ELSE b
Max(a, b) == IF a > b THEN a ELSE b
\* Ord::clamp
Clamp(v, lo, hi) == IF v < lo THEN lo ELSE IF v > hi THEN hi ELSE v

----------------------------------------------------------------------------
(* f64.  A double is sign * man * 2^exp with man an integer of 53 bits,     *)
(* 2^52 <= man < 2^53, written in four limbs of 14 bits, the most           *)
(* significant first; zero has man = 0.  The operations round to nearest,   *)
(* ties to even, as IEEE 754 does.                                          *)

Limb == 2^14
Half == 2^28

F64(sign, exp, man) == [ sign |-> sign, exp |-> exp, man |-> man ]

F64Zero == F64(1, 0, << 0, 0, 0, 0 >>)
F64One == F64(1, -52, << 1024, 0, 0, 0 >>)

IsZero(x) == x.man[1] = 0

\* -x
F64Neg(x) == IF IsZero(x) THEN x ELSE [ x EXCEPT !.sign = -x.sign ]

\* The two halves of a mantissa, 25 and 28 bits.
Hi(m) == m[1] * Limb + m[2]
Lo(m) == m[3] * Limb + m[4]

\* The double of mantissa q3 q2 q1 q0, or of the next mantissa when `up`.
RoundPack(sign, exp, q3, q2, q1, q0, up) ==
    IF ~up THEN F64(sign, exp, << q3, q2, q1, q0 >>)
    ELSE IF q0 + 1 < Limb THEN F64(sign, exp, << q3, q2, q1, q0 + 1 >>)
    ELSE IF q1 + 1 < Limb THEN F64(sign, exp, << q3, q2, q1 + 1, 0 >>)
    ELSE IF q2 + 1 < Limb THEN F64(sign, exp, << q3, q2 + 1, 0, 0 >>)
    ELSE IF q3 + 1 < 2048 THEN F64(sign, exp, << q3 + 1, 0, 0, 0 >>)
    ELSE F64(sign, exp + 1, << 1024, 0, 0, 0 >>)

\* floor(log2(n)) for n >= 1
RECURSIVE Log2(_)
Log2(n) == IF n < 2 THEN 0 ELSE 1 + Log2(n \div 2)

\* The double of top * 2^(p - 30), for 2^30 <= top < 2^31.
FromTop(sign, p, top) ==
    F64(sign, p - 52, << top \div 2^20, (top \div 2^6) % Limb, (top % 2^6) * 2^8, 0 >>)

FromNat(sign, n, p) == FromTop(sign, p, n * 2^(30 - p))

\* `n as f64` for an integer |n| < 2^31: exact.
FromInt(n) ==
    IF n = 0 THEN F64Zero
    ELSE FromNat(IF n < 0 THEN -1 ELSE 1, Abs(n), Log2(Abs(n)))

\* The product d7 ... d0 (eight limbs, 2^104 <= product < 2^106) cut to 53
\* bits: sh of the bits of d3 go, with the three limbs below it.
MulRound(sign, exp, sh, d0, d1, d2, d3, d4, d5, d6, d7) ==
    RoundPack(sign, exp + 42 + sh,
              (d6 \div 2^sh) + d7 * 2^(14 - sh),
              (d5 \div 2^sh) + (d6 % 2^sh) * 2^(14 - sh),
              (d4 \div 2^sh) + (d5 % 2^sh) * 2^(14 - sh),
              (d3 \div 2^sh) + (d4 % 2^sh) * 2^(14 - sh),
              /\ (d3 \div 2^(sh - 1)) % 2 = 1
              /\ \/ (d3 % 2^(sh - 1)) + d2 + d1 + d0 > 0
                 \/ (d3 \div 2^sh) % 2 = 1)

MulNorm(sign, exp, d0, d1, d2, d3, d4, d5, d6, d7) ==
    MulRound(sign, exp, IF d7 >= 128 THEN 11 ELSE 10, d0, d1, d2, d3, d4, d5, d6, d7)

\* The columns c0 ... c6 of the product of two mantissas, carried.
MulCarry(sign, exp, c0, c1, c2, c3, c4, c5, c6) ==
    LET t1 == c1 + (c0 \div Limb)
        t2 == c2 + (t1 \div Limb)
        t3 == c3 + (t2 \div Limb)
        t4 == c4 + (t3 \div Limb)
        t5 == c5 + (t4 \div Limb)
        t6 == c6 + (t5 \div Limb)
    IN  MulNorm(sign, exp, c0 % Limb, t1 % Limb, t2 % Limb, t3 % Limb, t4 % Limb,
                t5 % Limb, t6 % Limb, t6 \div Limb)

MulMan(sign, exp, a, b) ==
    MulCarry(sign, exp,
             a[4] * b[4],
             a[4] * b[3] + a[3] * b[4],
             a[4] * b[2] + a[3] * b[3] + a[2] * b[4],
             a[4] * b[1] + a[3] * b[2] + a[2] * b[3] + a[1] * b[4],
             a[3] * b[1] + a[2] * b[2] + a[1] * b[3],
             a[2] * b[1] + a[1] * b[2],
             a[1] * b[1])

\* a * b
F64Mul(a, b) ==
    IF IsZero(a) \/ IsZero(b) THEN F64Zero
    ELSE MulMan(a.sign * b.sign, a.exp + b.exp, a.man, b.man)

\* Op(v) for the value of v: v is evaluated once, as the argument of a call
\* is, however often Op uses it.
Call(Op(_), v) == CHOOSE r \in { Op(a) : a \in { v } } : TRUE

\* One step of long division in base 2 on s = << rh, rl, acc >>: the
\* remainder (rh, rl) < b is doubled and b taken off when it fits; the
\* quotient's bit goes to acc.
DivStep(s, bh, bl) ==
    LET h2 == 2 * s[1] + ((2 * s[2]) \div Half)
        l2 == (2 * s[2]) % Half
    IN  IF h2 > bh \/ (h2 = bh /\ l2 >= bl)
        THEN << h2 - bh - (IF l2 < bl THEN 1 ELSE 0),
                IF l2 < bl THEN l2 - bl + Half ELSE l2 - bl,
                2 * s[3] + 1 >>
        ELSE << h2, l2, 2 * s[3] >>

\* n steps of the division
RECURSIVE DivBits(_, _, _, _)
DivBits(s, bh, bl, n) ==
    IF n = 0 THEN s
    ELSE Call(LAMBDA t : DivBits(t, bh, bl, n - 1), DivStep(s, bh, bl))

\* k more limbs of 14 bits of the quotient after those of ms and the one
\* in s: << rh, rl, limbs >>
RECURSIVE DivLimbs(_, _, _, _, _)
DivLimbs(s, bh, bl, k, ms) ==
    IF k = 0 THEN << s[1], s[2], Append(ms, s[3]) >>
    ELSE Call(LAMBDA t : DivLimbs(t, bh, bl, k - 1, Append(ms, s[3])),
              DivBits(<< s[1], s[2], 0 >>, bh, bl, 14))

\* The quotient's mantissa p[3] is rounded on the remainder (p[1], p[2]),
\* twice of which is compared with b.
DivRound(sign, exp, bh, bl, p) ==
    RoundPack(sign, exp, p[3][1], p[3][2], p[3][3], p[3][4],
              LET h2 == 2 * p[1] + ((2 * p[2]) \div Half)
                  l2 == (2 * p[2]) % Half
              IN  \/ h2 > bh
                  \/ h2 = bh /\ l2 > bl
                  \/ h2 = bh /\ l2 = bl /\ p[3][4] % 2 = 1)

\* The quotient of the mantissas (ah, al) / (bh, bl), which is in (1/2, 2):
\* its first bit, then 10 + 14 + 14 + 14 bits.
DivMan(sign, exp, ah, al, bh, bl) ==
    IF ah > bh \/ (ah = bh /\ al >= bl)
    THEN Call(LAMBDA p : DivRound(sign, exp - 52, bh, bl, p),
              DivLimbs(DivBits(<< ah - bh - (IF al < bl THEN 1 ELSE 0),
                                  IF al < bl THEN al - bl + Half ELSE al - bl,
                                  1 >>, bh, bl, 10),
                       bh, bl, 3, << >>))
    ELSE Call(LAMBDA p : DivRound(sign, exp - 53, bh, bl, p),
              DivLimbs(DivBits(<< ah, al, 0 >>, bh, bl, 11), bh, bl, 3, << >>))

\* a / b, b # 0
F64Div(a, b) ==
    IF IsZero(a) THEN F64Zero
    ELSE DivMan(a.sign * b.sign, a.exp - b.exp, Hi(a.man), Lo(a.man), Hi(b.man), Lo(b.man))

\* |a| < |b|
MagLt(a, b) ==
    IF IsZero(b) THEN FALSE
    ELSE IF IsZero(a) THEN TRUE
    ELSE \/ a.exp < b.exp
         \/ a.exp = b.exp /\ Hi(a.man) < Hi(b.man)
         \/ a.exp = b.exp /\ Hi(a.man) = Hi(b.man) /\ Lo(a.man) < Lo(b.man)

\* a < b
F64Lt(a, b) ==
    IF a.sign = 1 /\ b.sign = 1 THEN MagLt(a, b)
    ELSE IF a.sign = -1 /\ b.sign = -1 THEN MagLt(b, a)
    ELSE a.sign = -1

\* a <= b
F64Le(a, b) == ~F64Lt(b, a)

\* f64::max
F64Max(a, b) == IF F64Lt(a, b) THEN b ELSE a

\* f64::clamp
F64Clamp(v, lo, hi) ==
    Call(LAMBDA c : IF F64Lt(c, lo) THEN lo ELSE IF F64Lt(hi, c) THEN hi ELSE c, v)

I32_MAX == 2147483647

\* floor(man / 2^k) for 22 <= k <= 53
ShiftInt(m, k) ==
    IF k >= 28 THEN Hi(m) \div 2^(k - 28)
    ELSE Hi(m) * 2^(28 - k) + (Lo(m) \div 2^k)

\* bit k - 1 of man, 22 <= k <= 53: the half
HalfBit(m, k) ==
    IF k >= 29 THEN (Hi(m) \div 2^(k - 29)) % 2 ELSE (Lo(m) \div 2^(k - 1)) % 2

\* `x as i32` of a magnitude too large for i32
Saturated(sign) == IF sign = 1 THEN I32_MAX ELSE (-I32_MAX) - 1

\* `x as i32`: towards zero, saturating
TruncI32(x) ==
    IF IsZero(x) \/ x.exp <= -54 THEN 0
    ELSE IF x.exp > -22 THEN Saturated(x.sign)
    ELSE x.sign * ShiftInt(x.man, -x.exp)

\* `x.round() as i32`: to the nearest integer, halves away from zero
RoundI32(x) ==
    IF IsZero(x) \/ x.exp <= -54 THEN 0
    ELSE IF x.exp > -22 THEN Saturated(x.sign)
    ELSE IF ShiftInt(x.man, -x.exp) = I32_MAX /\ HalfBit(x.man, -x.exp) = 1
    THEN Saturated(x.sign)
    ELSE x.sign * (ShiftInt(x.man, -x.exp) + HalfBit(x.man, -x.exp))

\* The decimal literal n / 10^k (n < 2^31, k <= 9): the nearest double.
Dec(n, k) == F64Div(FromInt(n), FromInt(10^k))

----------------------------------------------------------------------------
(* Sine and cosine of the double t, 0 <= t < 8: the two doubles next to the *)
(* true value, below and above it in magnitude.  The cosine and the sine of *)
(* a double other than 0 are no doubles, so these are two; the library      *)
(* returns one of them.  Numbers below 1 are fractions of 84 bits, six      *)
(* limbs; the angle is kept to 140 bits, ten limbs below the point.         *)

\* a - b - borrow, limbs i, i - 1, ..., 1 of two sequences of one length
RECURSIVE SubLimbs(_, _, _, _)
SubLimbs(a, b, i, borrow) ==
    IF i = 0 THEN << >>
    ELSE SubLimbs(a, b, i - 1, IF a[i] - b[i] - borrow < 0 THEN 1 ELSE 0)
           \o << (a[i] - b[i] - borrow + Limb) % Limb >>

BigSub(a, b) == SubLimbs(a, b, Len(a), 0)

\* a * k + carry for a small k
RECURSIVE MulSmallLimbs(_, _, _, _)
MulSmallLimbs(a, k, i, carry) ==
    IF i = 0 THEN << >>
    ELSE MulSmallLimbs(a, k, i - 1, (a[i] * k + carry) \div Limb)
           \o << (a[i] * k + carry) % Limb >>

BigMulSmall(a, k) == MulSmallLimbs(a, k, Len(a), 0)

\* floor(a / d) for a small d: short division from limb i on, r carried
RECURSIVE DivSmallLimbs(_, _, _, _)
DivSmallLimbs(a, d, i, r) ==
    IF i > Len(a) THEN << >>
    ELSE << (r * Limb + a[i]) \div d >> \o DivSmallLimbs(a, d, i + 1, (r * Limb + a[i]) % d)

BigDivSmall(a, d) == DivSmallLimbs(a, d, 1, 0)

\* a < b from limb i on
RECURSIVE LtLimbs(_, _, _)
LtLimbs(a, b, i) ==
    IF i > Len(a) THEN FALSE
    ELSE IF a[i] # b[i] THEN a[i] < b[i]
    ELSE LtLimbs(a, b, i + 1)

BigLt(a, b) == LtLimbs(a, b, 1)

\* a * 2^k cut to the length of a, 0 <= k < 14
ShiftLeft(a, k) ==
    [ i \in 1..Len(a) |->
        ((a[i] * 2^k) % Limb) + (IF i < Len(a) THEN a[i + 1] \div 2^(14 - k) ELSE 0) ]

\* The index of the first limb of a that is not 0, from i on; Len(a) + 1 if none.
RECURSIVE FirstLimb(_, _)
FirstLimb(a, i) ==
    IF i > Len(a) THEN i ELSE IF a[i] # 0 THEN i ELSE FirstLimb(a, i + 1)

\* The number of leading zero bits of a limb v >= 1.
RECURSIVE LeadingZeros(_)
LeadingZeros(v) == IF v >= 2^13 THEN 0 ELSE 1 + LeadingZeros(2 * v)

\* floor(x * y) of two fractions of six limbs
MulHi6(x, y) ==
    LET t12 == x[6] * y[6]
        t11 == x[5] * y[6] + x[6] * y[5] + (t12 \div Limb)
        t10 == x[4] * y[6] + x[5] * y[5] + x[6] * y[4] + (t11 \div Limb)
        t9 == x[3] * y[6] + x[4] * y[5] + x[5] * y[4] + x[6] * y[3] + (t10 \div Limb)
        t8 == x[2] * y[6] + x[3] * y[5] + x[4] * y[4] + x[5] * y[3] + x[6] * y[2]
                + (t9 \div Limb)
        t7 == x[1] * y[6] + x[2] * y[5] + x[3] * y[4] + x[4] * y[3] + x[5] * y[2]
                + x[6] * y[1] + (t8 \div Limb)
        t6 == x[1] * y[5] + x[2] * y[4] + x[3] * y[3] + x[4] * y[2] + x[5] * y[1]
                + (t7 \div Limb)
        t5 == x[1] * y[4] + x[2] * y[3] + x[3] * y[2] + x[4] * y[1] + (t6 \div Limb)
        t4 == x[1] * y[3] + x[2] * y[2] + x[3] * y[1] + (t5 \div Limb)
        t3 == x[1] * y[2] + x[2] * y[1] + (t4 \div Limb)
        t2 == x[1] * y[1] + (t3 \div Limb)
    IN  << t2 \div Limb, t2 % Limb, t3 % Limb, t4 % Limb, t5 % Limb, t6 % Limb >>

Zero6 == << 0, 0, 0, 0, 0, 0 >>
\* 1 as the minuend of a fraction
One6 == << Limb, 0, 0, 0, 0, 0 >>
\* The smallest fraction above 0
Ulp6 == << 0, 0, 0, 0, 0, 1 >>

\* The series in z = y^2, by Horner's rule.  With u the rest of the series
\* from term n + 1 on, (z - z * u) / d(n) is the rest from term n on (u is
\* measured before the step, so that the steps are evaluated one by one):
\*   1 - cos y = z/2 (1 - z/12 (1 - z/30 ( ... ))),  d(n) = (2n - 1) 2n
\*   1 - sin y / y = z/6 (1 - z/20 (1 - z/42 ( ... ))),  d(n) = 2n (2n + 1)
RECURSIVE SeriesRest(_, _, _, _)
SeriesRest(z, u, n, odd) ==
    IF n = 0 \/ Len(u) # 6 THEN u
    ELSE SeriesRest(z,
                    BigDivSmall(BigSub(z, MulHi6(z, u)), (2 * n - 1 + odd) * (2 * n + odd)),
                    n - 1, odd)

COS_TERMS == 13
SIN_TERMS == 12

\* The two doubles next to sign * v * 2^exp for a fraction f of six limbs,
\* 1/2 <= f < 1, and a value v between f and f + 2^-84: the double of the
\* first 53 bits of f, and the next one.
PackFraction(sign, exp, f) ==
    { RoundPack(sign, exp - 53,
                f[1] \div 8,
                (f[1] % 8) * 2048 + (f[2] \div 8),
                (f[2] % 8) * 2048 + (f[3] \div 8),
                (f[3] % 8) * 2048 + (f[4] \div 8),
                up) : up \in BOOLEAN }

\* cos y = 1 - u for y # 0, which is below 1 also when u is below 2^-84
CosOf(u) == PackFraction(1, 0, BigSub(One6, IF u = Zero6 THEN Ulp6 ELSE u))

\* A fraction f in [1/4, 1) times 2^exp
PackQuarter(sign, exp, f) ==
    IF f[1] >= 2^13 THEN PackFraction(sign, exp, f)
    ELSE PackFraction(sign, exp - 1, ShiftLeft(f, 1))

\* yn - p, which is below yn also when p is below 2^-84
SinFraction(yn, p) == BigSub(yn, IF p = Zero6 THEN Ulp6 ELSE p)

\* sin |y| = |y| (1 - u) for |y| = yn * 2^exp, yn a fraction in [1/2, 1)
SinOf(sign, exp, yn, u) == PackQuarter(sign, exp, SinFraction(yn, MulHi6(yn, u)))

\* pi / 2 to 140 bits below the point
HALF_PI == << 1, 9351, 15188, 4363, 4484, 6754, 6348, 5212, 440, 3688, 9504 >>
\* floor(pi / 2 * 2^24)
HALF_PI_24 == 26353589

\* -x for the doubles x of a set
NegAll(xs) == { F64Neg(x) : x \in xs }

\* The quarter turns: << cos, sin >> of y + k pi / 2 from c = cos y, s = sin y,
\* each the set of the doubles it may be.
Turn(k, c, s) ==
    CASE k = 0 -> << c, s >>
      [] k = 1 -> << NegAll(s), c >>
      [] k = 2 -> << NegAll(c), NegAll(s) >>
      [] OTHER -> << s, NegAll(c) >>

\* y # 0 with first limb j, lz leading zero bits in it, and z = y^2
CosSinSeries(k, sign, y, j, lz, z) ==
    Turn(k % 4,
         CosOf(SeriesRest(z, Zero6, COS_TERMS, 0)),
         SinOf(sign, 14 * (2 - j) - lz,
               SubSeq(ShiftLeft(SubSeq(y \o Zero6 \o << 0 >>, j, j + 6), lz), 1, 6),
               SeriesRest(z, Zero6, SIN_TERMS, 1)))

CosSinSquare(k, sign, y, j, yfix) ==
    CosSinSeries(k, sign, y, j, LeadingZeros(y[j]), MulHi6(yfix, yfix))

CosSinFirst(k, sign, y, j) ==
    IF j > Len(y) THEN Turn(k % 4, { F64One }, { F64Zero })
    ELSE CosSinSquare(k, sign, y, j, SubSeq(y, 2, 7))

\* |y| = |t - k pi / 2| with its sign
CosSinReduced(k, sign, y) == CosSinFirst(k, sign, y, FirstLimb(y, 1))

CosSinTurns(t, k, kh) ==
    IF BigLt(t, kh) THEN CosSinReduced(k, -1, BigSub(kh, t))
    ELSE CosSinReduced(k, 1, BigSub(t, kh))

\* t in eleven limbs, one above the point; k = round(t / (pi / 2))
CosSinFixed(t) ==
    CosSinTurns(t, (2 * (t[1] * 2^24 + t[2] * 2^10 + (t[3] \div 2^4)) + HALF_PI_24)
                     \div (2 * HALF_PI_24),
                BigMulSmall(HALF_PI,
                            (2 * (t[1] * 2^24 + t[2] * 2^10 + (t[3] \div 2^4)) + HALF_PI_24)
                              \div (2 * HALF_PI_24)))

\* The mantissa w (five limbs) put q limbs above the lowest of eleven.
Placed(w, q) ==
    [ i \in 1..11 |-> IF (11 - i - q) \in 0..4 THEN w[5 - (11 - i - q)] ELSE 0 ]

\* The double t > 0 in fixed point: man * 2^exp, exp >= -140.
FixedOf(t) ==
    Placed(ShiftLeft(<< 0 >> \o t.man, (t.exp + 140) % 14), (t.exp + 140) \div 14)

\* << the doubles t.cos() may return, the doubles t.sin() may return >>:
\* 1.0 and 0.0 for t = 0.0, otherwise two doubles each.
CosSin(t) ==
    IF IsZero(t) THEN << { F64One }, { F64Zero } >> ELSE CosSinFixed(FixedOf(t))

\* std::f64::consts::TAU
TAU == F64(1, -50, << 1608, 8117, 4368, 11544 >>)

----------------------------------------------------------------------------
(* types.rs: the body registry and the focus levels.                        *)

Meta(name, id, nf, uni, color, orbit) ==
    [ name |-> name, id |-> id, nf_icon |-> nf, uni_icon |-> uni,
      color |-> color, orbit_au |-> orbit ]

\* The orbit radii of types.rs: each f64 literal is the double nearest to its
\* decimal, given here by its mantissa and exponent (LiteralsAsRead).
MERCURY_AU == F64(1, -54, << 1585, 9067, 600, 13665 >>)
VENUS_AU == F64(1, -53, << 1481, 6290, 6675, 3847 >>)
EARTH_AU == F64(1, -52, << 1024, 0, 0, 0 >>)
MARS_AU == F64(1, -52, << 1560, 4051, 11430, 8634 >>)
JUPITER_AU == F64(1, -50, << 1332, 2831, 2542, 13055 >>)
SATURN_AU == F64(1, -49, << 1220, 12205, 6957, 4944 >>)
URANUS_AU == F64(1, -48, << 1228, 3942, 10580, 2160 >>)
NEPTUNE_AU == F64(1, -48, << 1924, 6773, 13122, 15215 >>)

BODIES == <<
    Meta("Sun",     "10",  "F185", "F111", "Yellow",       None),
    Meta("Mercury", "199", "F111", "F111", "LightMagenta", Some(MERCURY_AU)),
    Meta("Venus",   "299", "F111", "F111", "LightYellow",  Some(VENUS_AU)),
    Meta("Earth",   "399", "F111", "F111", "LightBlue",    Some(EARTH_AU)),
    Meta("Mars",    "499", "F111", "F111", "Red",          Some(MARS_AU)),
    Meta("Jupiter", "599", "F111", "F111", "LightRed",     Some(JUPITER_AU)),
    Meta("Saturn",  "699", "F111", "F111", "LightYellow",  Some(SATURN_AU)),
    Meta("Uranus",  "799", "F111", "F111", "Cyan",         Some(URANUS_AU)),
    Meta("Neptune", "899", "F111", "F111", "Blue",         Some(NEPTUNE_AU)) >>

FOCUS_LEVELS == <<
    << "Earth",   EARTH_AU >>,
    << "Mars",    MARS_AU >>,
    << "Jupiter", JUPITER_AU >>,
    << "Saturn",  SATURN_AU >>,
    << "Uranus",  URANUS_AU >>,
    << "Neptune", NEPTUNE_AU >> >>

\* BODIES.iter().copied().find(|m| m.name == name)
RECURSIVE FindMeta(_, _)
FindMeta(name, i) ==
    IF i > Len(BODIES) THEN None
    ELSE IF BODIES[i].name = name THEN Some(BODIES[i])
    ELSE FindMeta(name, i + 1)

meta_by_name(name) == FindMeta(name, 1)

icon_for(meta, use_unicode) == IF use_unicode THEN meta.uni_icon ELSE meta.nf_icon

----------------------------------------------------------------------------
(* ui.rs: the grid, put_pixel, draw_ring, render_map_block.                 *)
(* A grid is the sequence of its rows, a row the sequence of its cells;     *)
(* the code's grid[yu][xu] is grid[yu + 1][xu + 1] here.                    *)

Pixel(ch, color, priority) == [ ch |-> ch, color |-> color, priority |-> priority ]

RING_PRIORITY == 1
SUN_PRIORITY == 10
BODY_PRIORITY == 20

RingPixel == Pixel("dot", "DarkGray", RING_PRIORITY)

\* vec![vec![None; w]; h]
EmptyGrid(w, h) == [ y \in 1..h |-> [ x \in 1..w |-> None ] ]

\* Two other replacement rules, against which the properties of put_pixel
\* are tested: the later writer wins a tie; an occupied cell keeps its pixel.
ReplacesLatest(cell, p) ==
    IF ~IsSome(cell) THEN TRUE
    ELSE p.priority >= Unwrap(cell).priority

ReplacesEmptyOnly(cell, p) == ~IsSome(cell)

\* The match of put_pixel: whether p replaces the cell's content.
Replaces(cell, p) ==
    IF ~IsSome(cell) THEN TRUE
    ELSE p.priority > Unwrap(cell).priority

\* The two early returns of put_pixel: the cell (x, y) exists.
InBounds(g, x, y) ==
    /\ ~(x < 0 \/ y < 0)
    /\ ~(y >= Len(g) \/ x >= Len(g[1]))

\* A put_pixel without the early returns, which writes to the nearest cell
\* of the grid instead.
put_pixel_clamped(g, x, y, p) ==
    IF Replaces(g[Clamp(y, 0, Len(g) - 1) + 1][Clamp(x, 0, Len(g[1]) - 1) + 1], p)
    THEN [ g EXCEPT ![Clamp(y, 0, Len(g) - 1) + 1][Clamp(x, 0, Len(g[1]) - 1) + 1] = Some(p) ]
    ELSE g

put_pixel(g, x, y, p) ==
    IF ~InBounds(g, x, y) THEN g
    ELSE IF Replaces(g[y + 1][x + 1], p)
         THEN [ g EXCEPT ![y + 1][x + 1] = Some(p) ]
         ELSE g

\* (r_pix * 6.0).clamp(64.0, 720.0) as i32
RingSteps(r_pix) ==
    TruncI32(F64Clamp(F64Mul(r_pix, FromInt(6)), FromInt(64), FromInt(720)))

\* (i as f64) * std::f64::consts::TAU / (steps as f64)
RingAngle(i, steps) == F64Div(F64Mul(FromInt(i), TAU), FromInt(steps))

\* CosSin of the angles of the samples lo, ..., hi - 1 of a ring of `steps`
\* samples, in the order of the loop.
RECURSIVE RingTrig(_, _, _)
RingTrig(steps, lo, hi) ==
    IF hi = lo + 1 THEN << CosSin(RingAngle(lo, steps)) >>
    ELSE RingTrig(steps, lo, (lo + hi) \div 2) \o RingTrig(steps, (lo + hi) \div 2, hi)

\* The numbers of samples of the rings of the grids explored below: their
\* cosines and sines are computed once and looked up by the samples.
TabledSteps == { 64, 67, 74, 92 }
TrigTable == [ steps \in TabledSteps |-> RingTrig(steps, 0, steps) ]

\* CosSin(t) for t the angle of sample i
SampleCosSin(i, steps) ==
    IF steps \in TabledSteps THEN TrigTable[steps][i + 1]
    ELSE CosSin(RingAngle(i, steps))

\* cx + (t.cos() * r_pix).round() as i32, for c the double t.cos() returned
RingCol(cx, r_pix, c) == cx + RoundI32(F64Mul(c, r_pix))

\* cy - (t.sin() * r_pix).round() as i32, for s the double t.sin() returned
RingRow(cy, r_pix, s) == cy - RoundI32(F64Mul(s, r_pix))

\* The cells << x, y >> of the sample whose t.cos() and t.sin() may return
\* the doubles of cs[1] and cs[2].
RingCellsOf(cx, cy, r_pix, cs) ==
    { RingCol(cx, r_pix, c) : c \in cs[1] } \X { RingRow(cy, r_pix, s) : s \in cs[2] }

\* The cells sample i of the ring may be: one cell, unless a product with
\* the radius is within a unit in the last place of a half.
RingPoint(cx, cy, r_pix, steps, i) ==
    RingCellsOf(cx, cy, r_pix, SampleCosSin(i, steps))

\* put_pixel at the cell pt.
PutAt(g, pt, p) == put_pixel(g, pt[1], pt[2], p)

\* The ring's dot put on a grid of gs at a cell of pts.
PutRingDot(gs, pts) == { PutAt(g, pt, RingPixel) : g \in gs, pt \in pts }

\* for i in lo..hi: the loop body runs for lo, lo + 1, ..., hi - 1 in this
\* order, on the grids gs the samples before may have left.  The range is
\* halved, and the first half's grids are computed before the second half
\* starts, so that the evaluation does not nest once per sample.
RECURSIVE RingLoop(_, _, _, _, _, _, _)
RingSecond(first, cx, cy, r_pix, steps, mid, hi) ==
    IF first # { } THEN RingLoop(first, cx, cy, r_pix, steps, mid, hi) ELSE first

RingHalves(gs, cx, cy, r_pix, steps, lo, mid, hi) ==
    RingSecond(RingLoop(gs, cx, cy, r_pix, steps, lo, mid), cx, cy, r_pix, steps, mid, hi)

RingLoop(gs, cx, cy, r_pix, steps, lo, hi) ==
    IF hi <= lo THEN gs
    ELSE IF hi = lo + 1
    THEN PutRingDot(gs, RingPoint(cx, cy, r_pix, steps, lo))
    ELSE RingHalves(gs, cx, cy, r_pix, steps, lo, (lo + hi) \div 2, hi)

\* A draw_ring without the early return for radii below one cell.
draw_ring_unguarded(g, cx, cy, r_pix) ==
    RingLoop({ g }, cx, cy, r_pix, RingSteps(r_pix), 0, RingSteps(r_pix))

\* The grids draw_ring may leave of the grid g: one grid, unless a sample
\* may be one of two cells.
draw_ring(g, cx, cy, r_pix) ==
    IF F64Lt(r_pix, F64One) THEN { g }
    ELSE RingLoop({ g }, cx, cy, r_pix, RingSteps(r_pix), 0, RingSteps(r_pix))

\* u16::saturating_sub(2) then max(1)
PanelSide(side) == Max(IF side >= 2 THEN side - 2 ELSE 0, 1)

GridW(a) == PanelSide(a[1])
GridH(a) == PanelSide(a[2])

FocusAu(fi) == FOCUS_LEVELS[fi + 1][2]

\* The literals 0.45 and 0.1 of render_map_block
FIT == F64(1, -54, << 1843, 3276, 13107, 3277 >>)
FOCUS_FLOOR == F64(1, -56, << 1638, 6553, 9830, 6554 >>)

\* (w.min(h) as f64 * 0.45) / focus_au.max(0.1)
BaseScale(w, h, fi) ==
    F64Div(F64Mul(FromInt(Min(w, h)), FIT), F64Max(FocusAu(fi), FOCUS_FLOOR))

\* A scale that leaves out the zoom factor.
ScaleWithoutZoom(w, h, fi, z) == BaseScale(w, h, fi)

\* base_scale * state.zoom
Scale(w, h, fi, z) == F64Mul(BaseScale(w, h, fi), z)

\* draw_ring on each grid of gs.
DrawRingOn(gs, cx, cy, r_pix) == UNION { draw_ring(g, cx, cy, r_pix) : g \in gs }

\* A ring loop that leaves out the ring of the focus orbit: it tests
\* r_au < focus_au.
RECURSIVE DrawRingsInside(_, _, _, _, _, _)
DrawRingsInsideFrom(drawn, cx, cy, scale, focus_au, i) ==
    IF drawn # { } THEN DrawRingsInside(drawn, cx, cy, scale, focus_au, i) ELSE drawn

DrawRingsInside(gs, cx, cy, scale, focus_au, i) ==
    IF i > Len(BODIES) THEN gs
    ELSE DrawRingsInsideFrom(IF IsSome(BODIES[i].orbit_au)
                                  /\ F64Lt(Unwrap(BODIES[i].orbit_au), focus_au)
                             THEN DrawRingOn(gs, cx, cy,
                                             F64Mul(Unwrap(BODIES[i].orbit_au), scale))
                             ELSE gs,
                             cx, cy, scale, focus_au, i + 1)

\* for m in BODIES: the rings of the orbits up to the focus orbit, from body
\* i on, on the grids gs the rings before may have left.
RECURSIVE DrawRings(_, _, _, _, _, _)
DrawRings(gs, cx, cy, scale, focus_au, i) ==
    IF i > Len(BODIES) THEN gs
    ELSE LET m == BODIES[i]
             drawn == IF IsSome(m.orbit_au) /\ F64Le(Unwrap(m.orbit_au), focus_au)
                      THEN DrawRingOn(gs, cx, cy, F64Mul(Unwrap(m.orbit_au), scale))
                      ELSE gs
         IN  IF drawn # { }
             THEN DrawRings(drawn, cx, cy, scale, focus_au, i + 1)
             ELSE drawn

\* The Sun's marker at the centre.
DrawSun(g, cx, cy, unicode) ==
    LET sun == meta_by_name("Sun")
    IN  IF IsSome(sun)
        THEN put_pixel(g, cx, cy,
                       Pixel(icon_for(Unwrap(sun), unicode), Unwrap(sun).color, SUN_PRIORITY))
        ELSE g

\* The cell a position v projects to.
Project(v, cx, cy, scale) ==
    << cx + RoundI32(F64Mul(v.x, scale)), cy - RoundI32(F64Mul(v.y, scale)) >>

\* An iteration that draws a body without a position at the centre instead
\* of skipping it.
DrawBodyAtCentre(g, b, cx, cy, scale, unicode) ==
    IF ~IsSome(meta_by_name(b.name)) THEN g
    ELSE PutAt(g, IF IsSome(b.pos_au) THEN Project(Unwrap(b.pos_au), cx, cy, scale)
                  ELSE << cx, cy >>,
               Pixel(icon_for(Unwrap(meta_by_name(b.name)), unicode),
                     Unwrap(meta_by_name(b.name)).color, BODY_PRIORITY))

\* One iteration of `for b in &state.bodies`.
DrawBody(g, b, cx, cy, scale, unicode) ==
    IF ~IsSome(b.pos_au) THEN g
    ELSE LET m == meta_by_name(b.name)
         IN  IF ~IsSome(m) THEN g
             ELSE LET c == Project(Unwrap(b.pos_au), cx, cy, scale)
                  IN  put_pixel(g, c[1], c[2],
                                Pixel(icon_for(Unwrap(m), unicode), Unwrap(m).color,
                                      BODY_PRIORITY))

RECURSIVE DrawBodies(_, _, _, _, _, _, _)
DrawBodies(g, bs, cx, cy, scale, unicode, i) ==
    IF i > Len(bs) THEN g
    ELSE LET drawn == DrawBody(g, bs[i], cx, cy, scale, unicode)
         IN  IF Len(drawn) > 0
             THEN DrawBodies(drawn, bs, cx, cy, scale, unicode, i + 1)
             ELSE drawn

\* The ring loop of render_map_block for a panel `a`, on its empty grid:
\* the grids it may leave.
FrameRingsOf(a, fi, z) ==
    DrawRings({ EmptyGrid(GridW(a), GridH(a)) }, GridW(a) \div 2, GridH(a) \div 2,
              Scale(GridW(a), GridH(a), fi, z), FocusAu(fi), 1)

\* The Sun's marker and the bodies' on the grid the ring loop left.
DrawMarkers(rings, bs, cx, cy, scale, unicode) ==
    DrawBodies(DrawSun(rings, cx, cy, unicode), bs, cx, cy, scale, unicode, 1)

\* The rest of render_map_block on each of the grids `ringed`.
FrameMarkers(ringed, a, bs, fi, z, unicode) ==
    { DrawMarkers(rings, bs, GridW(a) \div 2, GridH(a) \div 2,
                  Scale(GridW(a), GridH(a), fi, z), unicode) : rings \in ringed }

\* The grids render_map_block may build for a panel `a` and the fields of
\* the state it is handed: one grid, unless a ring sample may be one of two
\* cells.
render_map_block(a, bs, fi, z, unicode) ==
    FrameMarkers(FrameRingsOf(a, fi, z), a, bs, fi, z, unicode)

----------------------------------------------------------------------------
(* main.rs: the initial AppState.                                           *)

Vec3(x, y, z) == [ x |-> x, y |-> y, z |-> z ]
\* Vec3 { x: 0.0, y: 0.0, z: 0.0 }
Origin == Vec3(F64Zero, F64Zero, F64Zero)

StatusStarting == << "Starting" >>
StatusOK == << "OK" >>
\* format!("Fetch error ({}): {}", name, e)
FetchError(name, e) == << "Fetch error", name, e >>

\* BODIES.iter().map(|m| BodyState { name, id, pos_au: None })
InitialBodies ==
    [ i \in 1..Len(BODIES) |->
        [ name |-> BODIES[i].name, id |-> BODIES[i].id, pos_au |-> None ] ]

InitialZoom == F64One
InitialFocus == Len(FOCUS_LEVELS) - 1

\* BTreeMap::new(), get and insert
EmptyMap == [ n \in {} |-> Origin ]
MapGet(m, n) == IF n \in DOMAIN m THEN Some(m[n]) ELSE None
MapInsert(m, n, v) == [ k \in (DOMAIN m) \cup {n} |-> IF k = n THEN v ELSE m[k] ]

\* The "no operation yet" value of the history of grid operations.
NoOp == [ op |-> "none" ]

\* has_arg("--unicode") is `unicode`.
InitApp(unicode) ==
    /\ bodies = InitialBodies
    /\ last_update_utc = None
    /\ status = StatusStarting
    /\ use_unicode_icons = unicode
    /\ zoom = InitialZoom
    /\ focus_index = InitialFocus

InitUpdater ==
    /\ upc = "start"
    /\ now_label = 0
    /\ bodies_snapshot = << >>
    /\ snap_i = 0
    /\ new_positions = EmptyMap
    /\ cyc_status = StatusOK
    /\ cycle = 0
    /\ fetched = [ i \in 1..Len(BODIES) |-> None ]
    /\ cyc_failed = << >>
    /\ failures = 0

InitKeys ==
    /\ running = TRUE
    /\ last_key = "none"
    /\ prev_view = << InitialZoom, InitialFocus >>

\* Arc::new(Mutex::new(AppState { .. })), and main about to enter its loop.
InitSync ==
    /\ lock = "free"
    /\ mpc = "lock_snapshot"
    /\ pending = "none"
    /\ snapshot = None
    /\ nkeys = 0
    /\ nframes = 0

\* The clone of AppState.
CloneState ==
    [ bodies |-> bodies, last_update_utc |-> last_update_utc, status |-> status,
      use_unicode_icons |-> use_unicode_icons, zoom |-> zoom,
      focus_index |-> focus_index ]

\* main about to draw a frame: it has cloned the state and released the lock.
InitDrawing ==
    /\ lock = "free"
    /\ mpc = "draw"
    /\ pending = "none"
    /\ snapshot = Some(CloneState)
    /\ nkeys = 0
    /\ nframes = 0

\* The cells of a grid, as << x, y >> with the code's 0-based indices.
Cells(g) == (0..(Len(g[1]) - 1)) \X (0..(Len(g) - 1))

\* The grid render_map_block starts from, for a panel of `panels`.
InitGrid(panels) ==
    /\ area \in panels
    /\ grid = EmptyGrid(GridW(area), GridH(area))
    /\ written = [ c \in Cells(grid) |-> << >> ]
    /\ last_op = NoOp
    /\ prev_grid = grid

----------------------------------------------------------------------------
(* horizons.rs: the updater task.                                           *)

\* Bounds of the refresh runs explored: cycles started, and fetches that fail.
MaxCycles == 2
MaxFailures == 3

\* The failures fetch_body_vec reports: the request (network, HTTP status)
\* or the response (JSON, table markers, no parseable row).
FetchErrors == { "request", "response" }

\* s.bodies.iter().filter(|b| b.id != "10").map(|b| (b.name, b.id))
BodiesSnapshot(bs) ==
    SelectSeq([ i \in 1..Len(bs) |-> << bs[i].name, bs[i].id >> ],
              LAMBDA e : e[2] # "10")

\* A field of a row of the service's table: the decimal n * 10^e, as in
\* "1.523679" (1523679, -6), "-1.5e-3" (-15, -4), "2E+01" (2, 1), "0" (0, 0).
Field(n, e) == << n, e >>

\* The last three of the five or more columns of a row.
Row(x, y, z) == << x, y, z >>

\* str::parse::<f64> of a field: the nearest double (|n| < 2^31, -9 <= e, and
\* n * 10^e < 2^31 when e > 0).
parse_f64(fd) ==
    IF fd[2] >= 0 THEN FromInt(fd[1] * 10^fd[2]) ELSE Dec(fd[1], -fd[2])

\* Vec3 { x, y, z } of the last three columns of a row that has five columns
\* or more and a number in each of the three.
parse_xyz_from_csv_row(row) ==
    Vec3(parse_f64(row[1]), parse_f64(row[2]), parse_f64(row[3]))

\* The digits of the orbit radius of a body of BODIES, in 10^-6 AU.
OrbitMicroAu(name) ==
    CASE name = "Mercury" -> 387098
      [] name = "Venus" -> 723332
      [] name = "Earth" -> 1000000
      [] name = "Mars" -> 1523679
      [] name = "Jupiter" -> 5203800
      [] name = "Saturn" -> 9537070
      [] name = "Uranus" -> 19191260
      [] name = "Neptune" -> 30068960
      [] OTHER -> 0

\* The row that has body `name` on its nominal orbit in the window of cycle
\* c, a quarter turn further each cycle: (r, 0, 0), (0, r, 0), (-r, 0, 0),
\* (0, -r, 0).
NominalRow(name, c) ==
    CASE c % 4 = 1 -> Row(Field(OrbitMicroAu(name), -6), Field(0, 0), Field(0, 0))
      [] c % 4 = 2 -> Row(Field(0, 0), Field(OrbitMicroAu(name), -6), Field(0, 0))
      [] c % 4 = 3 -> Row(Field(-OrbitMicroAu(name), -6), Field(0, 0), Field(0, 0))
      [] OTHER -> Row(Field(0, 0), Field(-OrbitMicroAu(name), -6), Field(0, 0))

\* The vector of the nominal row.
NominalVec(name, c) ==
    LET m == meta_by_name(name)
        r == IF IsSome(m) /\ IsSome(Unwrap(m).orbit_au)
             THEN Unwrap(Unwrap(m).orbit_au) ELSE F64Zero
    IN  CASE c % 4 = 1 -> Vec3(r, F64Zero, F64Zero)
          [] c % 4 = 2 -> Vec3(F64Zero, r, F64Zero)
          [] c % 4 = 3 -> Vec3(F64Neg(r), F64Zero, F64Zero)
          [] OTHER -> Vec3(F64Zero, F64Neg(r), F64Zero)

\* Rows off the nominal orbits and off the plane, which the runs explore for
\* two of the bodies: "0.3, -0.2, 0.1" and "-1.5e-3, 2E+01, 0".
MarsRow == Row(Field(3, -1), Field(-2, -1), Field(1, -1))
JupiterRow == Row(Field(-15, -4), Field(2, 1), Field(0, 0))

OtherRows(name) ==
    CASE name = "Mars" -> { MarsRow }
      [] name = "Jupiter" -> { JupiterRow }
      [] OTHER -> { }

\* The first parseable row of a response for body `name` in cycle c.  The
\* service decides it; the runs explore the rows above.
ResponseRows(name, c) == { NominalRow(name, c) } \cup OtherRows(name)

\* The vectors of the rows above, by body and by cycle modulo 4: they are
\* parsed once and looked up by the fetches.
ResponseVecs ==
    [ name \in { BODIES[i].name : i \in 1..Len(BODIES) } |->
        [ q \in 0..3 |-> { parse_xyz_from_csv_row(row) : row \in ResponseRows(name, q) } ] ]

\* let mut status = "OK".to_string()
CycleStatus(shared_status) == StatusOK

\* An error arm that keeps the first failure of the cycle.
OnFetchErrFirst(cur_status, name, e) ==
    IF cur_status = StatusOK THEN FetchError(name, e) ELSE cur_status

\* Err(e) => status = format!(...)
OnFetchErr(cur_status, name, e) == FetchError(name, e)

\* A commit without the arm that puts the Sun at the origin.
CommitBodyNoSun(b, np) == [ b EXCEPT !.pos_au = OrElse(MapGet(np, b.name), b.pos_au) ]

\* A commit that takes the cycle's vector or none, without `.or(b.pos_au)`.
CommitBodyReset(b, np) ==
    IF b.id = "10"
    THEN [ b EXCEPT !.pos_au = Some(Origin) ]
    ELSE [ b EXCEPT !.pos_au = MapGet(np, b.name) ]

\* One body of the commit loop: the Sun is put at the origin, another body
\* takes the cycle's vector, or keeps its own.
CommitBody(b, np) ==
    IF b.id = "10"
    THEN [ b EXCEPT !.pos_au = Some(Origin) ]
    ELSE [ b EXCEPT !.pos_au = OrElse(MapGet(np, b.name), b.pos_au) ]

\* for b in &mut s.bodies
CommitBodies(bs, np) == [ i \in 1..Len(bs) |-> CommitBody(bs[i], np) ]

\* The index in BODIES (and in state.bodies) of the body called `name`.
BodyIndex(name) == CHOOSE i \in 1..Len(BODIES) : BODIES[i].name = name

\* The top of the loop up to the first fetch: now_label, the snapshot of the
\* bodies to fetch (taken under the lock), the empty map and the "OK" status.
CycleStart ==
    /\ running
    /\ upc = "start"
    /\ cycle < MaxCycles
    /\ cycle' = cycle + 1
    /\ now_label' = cycle + 1
    /\ bodies_snapshot' = BodiesSnapshot(bodies)
    /\ snap_i' = 0
    /\ new_positions' = EmptyMap
    /\ cyc_status' = CycleStatus(status)
    /\ cyc_failed' = << >>
    /\ upc' = IF Len(BodiesSnapshot(bodies)) = 0 THEN "commit" ELSE "fetch"
    /\ UNCHANGED << fetched, failures, appVars, keyVars, gridVars, syncVars >>

\* Where the updater goes after a fetch and its 120 ms sleep.
AfterFetch(i) == IF i >= Len(bodies_snapshot) THEN "commit" ELSE "fetch"

\* fetch_body_vec returns Ok(v), v the vector of the response's first
\* parseable row, and the 120 ms sleep is over.
FetchOk ==
    /\ running
    /\ upc = "fetch"
    /\ snap_i < Len(bodies_snapshot)
    /\ \E v \in ResponseVecs[bodies_snapshot[snap_i + 1][1]][cycle % 4] :
        /\ new_positions' = MapInsert(new_positions, bodies_snapshot[snap_i + 1][1], v)
        /\ fetched' = [ fetched EXCEPT
                          ![BodyIndex(bodies_snapshot[snap_i + 1][1])] = Some(v) ]
    /\ snap_i' = snap_i + 1
    /\ upc' = AfterFetch(snap_i + 1)
    /\ UNCHANGED << now_label, bodies_snapshot, cyc_status, cycle, cyc_failed,
                    failures, appVars, keyVars, gridVars, syncVars >>

FetchErr ==
    /\ running
    /\ upc = "fetch"
    /\ snap_i < Len(bodies_snapshot)
    /\ failures < MaxFailures
    /\ \E e \in FetchErrors :
         LET name == bodies_snapshot[snap_i + 1][1]
         IN  /\ cyc_status' = OnFetchErr(cyc_status, name, e)
             /\ cyc_failed' = Append(cyc_failed, << name, e >>)
    /\ failures' = failures + 1
    /\ snap_i' = snap_i + 1
    /\ upc' = AfterFetch(snap_i + 1)
    /\ UNCHANGED << now_label, bodies_snapshot, new_positions, cycle, fetched,
                    appVars, keyVars, gridVars, syncVars >>

Commit ==
    /\ running
    /\ upc = "commit"
    /\ bodies' = CommitBodies(bodies, new_positions)
    /\ last_update_utc' = Some(now_label)
    /\ status' = cyc_status
    /\ upc' = "sleep"
    /\ UNCHANGED << use_unicode_icons, zoom, focus_index, now_label, bodies_snapshot,
                    snap_i, new_positions, cyc_status, cycle, fetched, cyc_failed,
                    failures, keyVars, gridVars, syncVars >>

\* sleep(Duration::from_secs(5)) is over.
CycleSleep ==
    /\ running
    /\ upc = "sleep"
    /\ upc' = "start"
    /\ UNCHANGED << now_label, bodies_snapshot, snap_i, new_positions, cyc_status,
                    cycle, fetched, cyc_failed, failures, appVars, keyVars, gridVars, syncVars >>

Updater == CycleStart \/ FetchOk \/ FetchErr \/ Commit \/ CycleSleep

----------------------------------------------------------------------------
(* main.rs: the key handlers of the input loop.                             *)

\* The literals 0.2, 50.0 and 1.25
ZOOM_MIN == F64(1, -55, << 1638, 6553, 9830, 6554 >>)
ZOOM_MAX == F64(1, -47, << 1600, 0, 0, 0 >>)
ZOOM_STEP == F64(1, -52, << 1280, 0, 0, 0 >>)

\* Each literal above is the double its decimal is read as, and the nominal
\* rows are read as the bodies' orbit radii.
LiteralsAsRead ==
    /\ \A i \in 2..Len(BODIES) : \A c \in 1..4 :
           parse_xyz_from_csv_row(NominalRow(BODIES[i].name, c))
             = NominalVec(BODIES[i].name, c)
    /\ MERCURY_AU = Dec(387098, 6)
    /\ VENUS_AU = Dec(723332, 6)
    /\ EARTH_AU = Dec(1000000, 6)
    /\ MARS_AU = Dec(1523679, 6)
    /\ JUPITER_AU = Dec(5203800, 6)
    /\ SATURN_AU = Dec(9537070, 6)
    /\ URANUS_AU = Dec(1919126, 5)
    /\ NEPTUNE_AU = Dec(3006896, 5)
    /\ FIT = Dec(45, 2)
    /\ FOCUS_FLOOR = Dec(1, 1)
    /\ ZOOM_MIN = Dec(2, 1)
    /\ ZOOM_MAX = Dec(500, 1)
    /\ ZOOM_STEP = Dec(125, 2)

\* A clamp with the lower limit only.
clamp_zoom_floor(z) == F64Max(z, ZOOM_MIN)

\* z.clamp(0.2, 50.0)
clamp_zoom(z) == F64Clamp(z, ZOOM_MIN, ZOOM_MAX)

\* '+' | '=': s.zoom = clamp_zoom(s.zoom * 1.25)
ZoomIn(z) == clamp_zoom(F64Mul(z, ZOOM_STEP))
\* '-': s.zoom = clamp_zoom(s.zoom / 1.25)
ZoomOut(z) == clamp_zoom(F64Div(z, ZOOM_STEP))
\* '[': if s.focus_index > 0 { s.focus_index -= 1 }
FocusIn(fi) == IF fi > 0 THEN fi - 1 ELSE fi
\* A focus-out whose comparison is off by one.
FocusOutPast(fi) == IF fi + 1 <= Len(FOCUS_LEVELS) THEN fi + 1 ELSE fi

\* ']': if s.focus_index + 1 < FOCUS_LEVELS.len() { s.focus_index += 1 }
FocusOut(fi) == IF fi + 1 < Len(FOCUS_LEVELS) THEN fi + 1 ELSE fi

\* What every handled key leaves alone, and the history of the key.
KeyFrame(k) ==
    /\ running
    /\ last_key' = k
    /\ prev_view' = << zoom, focus_index >>
    /\ UNCHANGED << bodies, last_update_utc, status, use_unicode_icons,
                    updVars, gridVars, syncVars >>

KeyZoomIn ==
    /\ \E k \in { "+", "=" } : KeyFrame(k)
    /\ zoom' = ZoomIn(zoom)
    /\ UNCHANGED << focus_index, running >>

KeyZoomOut ==
    /\ KeyFrame("-")
    /\ zoom' = ZoomOut(zoom)
    /\ UNCHANGED << focus_index, running >>

KeyReset ==
    /\ KeyFrame("0")
    /\ zoom' = F64One
    /\ focus_index' = Len(FOCUS_LEVELS) - 1
    /\ UNCHANGED running

KeyFocusIn ==
    /\ KeyFrame("[")
    /\ focus_index' = FocusIn(focus_index)
    /\ UNCHANGED << zoom, running >>

KeyFocusOut ==
    /\ KeyFrame("]")
    /\ focus_index' = FocusOut(focus_index)
    /\ UNCHANGED << zoom, running >>

\* Any other key: `_ => {}`.
KeyOther ==
    /\ KeyFrame("other")
    /\ UNCHANGED << zoom, focus_index, running >>

\* 'q': break
KeyQuit ==
    /\ KeyFrame("q")
    /\ running' = FALSE
    /\ UNCHANGED << zoom, focus_index >>

Keys == KeyZoomIn \/ KeyZoomOut \/ KeyReset \/ KeyFocusIn \/ KeyFocusOut
          \/ KeyOther \/ KeyQuit

----------------------------------------------------------------------------
(* The specifications.                                                      *)

\* The panels of the runs that do not draw.
NoPanel == { << 0, 0 >> }

InitProgram ==
    InitApp(FALSE) /\ InitUpdater /\ InitKeys /\ InitSync /\ InitGrid(NoPanel)

\* The updater task alone: refresh cycles, each fetch succeeding or failing.
SpecRefresh == InitProgram /\ [][Updater]_vars

\* The input loop alone: any sequence of keys.
SpecKeys == InitProgram /\ [][Keys]_vars

----------------------------------------------------------------------------
(* Sequences of put_pixel calls on a fresh grid.                            *)

\* put_pixel calls that reach a cell, per run.
MaxWrites == 3
\* How far outside the grid the coordinates of the calls go.
Reach == 1

PixelPanels == { << 0, 0 >>, << 4, 3 >> }

\* The marker render_map_block draws for the body called `name`.
BodyPixel(name, unicode) ==
    LET m == Unwrap(meta_by_name(name))
    IN  Pixel(icon_for(m, unicode), m.color, BODY_PRIORITY)

SunPixel(unicode) ==
    LET m == Unwrap(meta_by_name("Sun"))
    IN  Pixel(icon_for(m, unicode), m.color, SUN_PRIORITY)

\* The pixels handed to put_pixel: a ring dot, the Sun, two planets.
Pixels == { RingPixel, SunPixel(FALSE), BodyPixel("Earth", FALSE), BodyPixel("Mars", FALSE) }

RECURSIVE SumLen(_, _)
SumLen(f, S) ==
    IF S = {} THEN 0
    ELSE LET c == CHOOSE c \in S : TRUE IN Len(f[c]) + SumLen(f, S \ {c})

PutPixel ==
    \E x \in (-Reach)..(GridW(area) - 1 + Reach),
       y \in (-Reach)..(GridH(area) - 1 + Reach),
       p \in Pixels :
        /\ (<< x, y >> \in DOMAIN written => SumLen(written, DOMAIN written) < MaxWrites)
        /\ grid' = put_pixel(grid, x, y, p)
        /\ written' = IF << x, y >> \in DOMAIN written
                      THEN [ written EXCEPT ![<< x, y >>] = Append(@, p) ]
                      ELSE written
        /\ last_op' = [ op |-> "put_pixel", x |-> x, y |-> y ]
        /\ prev_grid' = grid
        /\ UNCHANGED << area, appVars, updVars, keyVars, syncVars >>

InitPixel ==
    InitApp(FALSE) /\ InitUpdater /\ InitKeys /\ InitSync /\ InitGrid(PixelPanels)

SpecPixel == InitPixel /\ [][PutPixel]_vars

----------------------------------------------------------------------------
(* Calls of draw_ring on a grid.                                            *)

RingPanels == { << 0, 0 >>, << 4, 4 >> }

\* Radii in cells: below one cell (0.0, 0.3, 0.999999), and from one cell on
\* (1.0, 1.5, 1.6); the samples of the radius 1.5 a quarter turn from the
\* first are one or two cells from the centre, as sin and cos return.
SmallRadii == { F64Zero, Dec(3, 1), Dec(999999, 6) }
LargeRadii == { F64One, Dec(15, 1), Dec(16, 1) }

\* A ring of a radius below one cell, about any centre.
RingSmall ==
    \E cx \in (-Reach)..(GridW(area) - 1 + Reach),
       cy \in (-Reach)..(GridH(area) - 1 + Reach),
       r \in SmallRadii :
        /\ grid' \in draw_ring(grid, cx, cy, r)
        /\ last_op' = [ op |-> "draw_ring", x |-> cx, y |-> cy, r |-> r ]
        /\ prev_grid' = grid
        /\ UNCHANGED << area, written, appVars, updVars, keyVars, syncVars >>

\* A ring of one cell or more, about the centre render_map_block uses.
RingLarge ==
    \E r \in LargeRadii :
        /\ grid' \in draw_ring(grid, GridW(area) \div 2, GridH(area) \div 2, r)
        /\ last_op' = [ op |-> "draw_ring", x |-> GridW(area) \div 2,
                        y |-> GridH(area) \div 2, r |-> r ]
        /\ prev_grid' = grid
        /\ UNCHANGED << area, written, appVars, updVars, keyVars, syncVars >>

\* The Sun's marker, as render_map_block puts it after the rings.
RingSun ==
    /\ grid' = DrawSun(grid, GridW(area) \div 2, GridH(area) \div 2, use_unicode_icons)
    /\ last_op' = [ op |-> "sun" ]
    /\ prev_grid' = grid
    /\ UNCHANGED << area, written, appVars, updVars, keyVars, syncVars >>

InitRing ==
    /\ \E u \in BOOLEAN : InitApp(u)
    /\ InitUpdater /\ InitKeys /\ InitSync /\ InitGrid(RingPanels)

SpecRing == InitRing /\ [][RingSmall \/ RingLarge \/ RingSun]_vars

----------------------------------------------------------------------------
(* Frames: render_map_block on a snapshot of the state.                     *)

\* Zoom keys pressed before the frame.
MaxFrameKeys == 1

FramePanels == { << 0, 0 >>, << 12, 9 >>, << 80, 24 >> }

\* The zoom factors k zoom keys lead to from the initial zoom.
RECURSIVE ZoomsWithin(_)
ZoomsWithin(k) ==
    IF k = 0 THEN { InitialZoom }
    ELSE LET S == ZoomsWithin(k - 1)
         IN  S \cup { ZoomIn(z) : z \in S } \cup { ZoomOut(z) : z \in S }

\* The frames of these panels under these zooms: their ring loops are
\* computed once and looked up by the draws.
TabledFrames ==
    { << a, fi, z >> : a \in FramePanels, fi \in 0..(Len(FOCUS_LEVELS) - 1),
                       z \in ZoomsWithin(MaxFrameKeys) }
RingsTable == [ f \in TabledFrames |-> FrameRingsOf(f[1], f[2], f[3]) ]

\* render_map_block(a, bs, fi, z, unicode)
RenderFrame(a, bs, fi, z, unicode) ==
    IF << a, fi, z >> \in TabledFrames
    THEN FrameMarkers(RingsTable[<< a, fi, z >>], a, bs, fi, z, unicode)
    ELSE render_map_block(a, bs, fi, z, unicode)

\* The names of the bodies the updater fetches.
Fetchable == { bs[1] : bs \in { BodiesSnapshot(InitialBodies)[i] :
                                  i \in 1..Len(BodiesSnapshot(InitialBodies)) } }

\* new_positions at the commit of cycle c when the fetches of `failed` failed
\* and the others were answered with the nominal row.
CyclePositions(c, failed) == [ n \in Fetchable \ failed |-> NominalVec(n, c) ]

\* The failures of a cycle on the bodies `before` in which the fetches of
\* `failed` failed with a request error, in the order of the fetches.
FailedFetches(before, failed) ==
    SelectSeq([ k \in 1..Len(BodiesSnapshot(before)) |->
                  << BodiesSnapshot(before)[k][1], "request" >> ],
              LAMBDA f : f[1] \in failed)

\* new_positions at the commit of a cycle c without failure in which Mars
\* and Jupiter were answered with their other rows.
OffAxisPositions(c) ==
    [ n \in Fetchable |->
        CASE n = "Mars" -> parse_xyz_from_csv_row(MarsRow)
          [] n = "Jupiter" -> parse_xyz_from_csv_row(JupiterRow)
          [] OTHER -> NominalVec(n, c) ]

\* The cycle's status after the error arms of the failures fs, from i on.
RECURSIVE StatusAfter(_, _, _)
StatusAfter(st, fs, i) ==
    IF i > Len(fs) THEN st
    ELSE StatusAfter(OnFetchErr(st, fs[i][1], fs[i][2]), fs, i + 1)

\* The state at program start: no cycle has committed.
StartState ==
    [ bodies |-> InitialBodies, last_update_utc |-> None, status |-> StatusStarting,
      upc |-> "start", now_label |-> 0, bodies_snapshot |-> << >>, snap_i |-> 0,
      new_positions |-> EmptyMap, cyc_status |-> StatusOK, cycle |-> 0,
      fetched |-> [ i \in 1..Len(BODIES) |-> None ], cyc_failed |-> << >>,
      failures |-> 0 ]

\* The state the updater sleeps in after cycle c committed the positions np
\* on the bodies `before`, the fetches of the bodies in `failed` having
\* failed with a request error; `fails` failures came earlier.  The status
\* is that of the last failure.
SleepStateWith(before, c, np, failed, fails) ==
    [ bodies |-> CommitBodies(before, np),
      last_update_utc |-> Some(c),
      status |-> StatusAfter(StatusOK, FailedFetches(before, failed), 1),
      upc |-> "sleep", now_label |-> c,
      bodies_snapshot |-> BodiesSnapshot(before),
      snap_i |-> Len(BodiesSnapshot(before)),
      new_positions |-> np,
      cyc_status |-> StatusAfter(StatusOK, FailedFetches(before, failed), 1),
      cycle |-> c,
      fetched |-> [ i \in 1..Len(BODIES) |->
                      IF BODIES[i].name \in DOMAIN np THEN Some(np[BODIES[i].name])
                      ELSE IF BODIES[i].name \in failed THEN before[i].pos_au
                      ELSE None ],
      cyc_failed |-> FailedFetches(before, failed),
      failures |-> fails + Cardinality(failed) ]

\* The same, the fetches that succeeded having been answered with the
\* nominal row.
SleepState(before, c, failed, fails) ==
    SleepStateWith(before, c, CyclePositions(c, failed), failed, fails)

\* The state in which the updater is about to take the lock of the commit
\* block of cycle c, on the shared fields of `prev`.
CommitState(prev, c, failed, fails) ==
    [ SleepState(prev.bodies, c, failed, fails) EXCEPT
        !.bodies = prev.bodies, !.last_update_utc = prev.last_update_utc,
        !.status = prev.status, !.upc = "commit" ]

\* The states a frame is taken in: program start, the first cycle about to
\* commit, the sleep after a first cycle in which at most one fetch failed
\* or those of Venus and Mars did, or none did and Mars and Jupiter are off
\* their orbits, and the sleep after a second cycle without failure.
FrameStates ==
    { StartState, CommitState(StartState, 1, {}, 0),
      SleepState(InitialBodies, 1, {}, 0),
      SleepState(InitialBodies, 1, { "Venus", "Mars" }, 0),
      SleepStateWith(InitialBodies, 1, OffAxisPositions(1), {}, 0) }
      \cup { SleepState(InitialBodies, 1, {n}, 0) : n \in Fetchable }
      \cup { SleepState(SleepState(InitialBodies, 1, {}, 0).bodies, 2, {}, 0) }

InitFrame ==
    \E s \in FrameStates :
        /\ bodies = s.bodies
        /\ last_update_utc = s.last_update_utc
        /\ status = s.status
        /\ upc = s.upc
        /\ now_label = s.now_label
        /\ bodies_snapshot = s.bodies_snapshot
        /\ snap_i = s.snap_i
        /\ new_positions = s.new_positions
        /\ cyc_status = s.cyc_status
        /\ cycle = s.cycle
        /\ fetched = s.fetched
        /\ cyc_failed = s.cyc_failed
        /\ failures = s.failures

\* The view a frame is taken with: the zoom keys pressed, any focus level.
InitView ==
    /\ use_unicode_icons = FALSE
    /\ zoom \in ZoomsWithin(MaxFrameKeys)
    /\ focus_index \in 0..(Len(FOCUS_LEVELS) - 1)

\* main about to take the snapshot of its first frame.
InitFrames == InitFrame /\ InitView /\ InitKeys /\ InitSync /\ InitGrid(FramePanels)

----------------------------------------------------------------------------
(* Properties.                                                              *)

\* The content of the cell << x, y >> (0-based) of grid g.
CellAt(g, c) == g[c[2] + 1][c[1] + 1]

\* The highest priority among the pixels of a non-empty sequence.
TopPriority(ws) ==
    CHOOSE m \in { ws[i].priority : i \in 1..Len(ws) } :
        \A i \in 1..Len(ws) : ws[i].priority <= m

\* The earliest pixel of the highest priority in a non-empty sequence.
EarliestTop(ws) ==
    ws[CHOOSE i \in 1..Len(ws) :
         /\ ws[i].priority = TopPriority(ws)
         /\ \A j \in 1..(i - 1) : ws[j].priority < TopPriority(ws)]

\* C1: after any sequence of put_pixel writes on a fresh grid, every cell
\* that was never written is empty, and every other cell holds the pixel of
\* the highest priority among those written to it, the earliest written of
\* them when several share that priority.
C1_MaxPriorityEarliestWins ==
    \A c \in DOMAIN written :
        IF written[c] = << >>
        THEN CellAt(grid, c) = None
        ELSE CellAt(grid, c) = Some(EarliestTop(written[c]))

\* A cell written with a ring dot, then Earth, then Mars (a tie at the
\* highest priority) holds Earth.
C1_Witness ==
    \E c \in DOMAIN written :
        /\ written[c] = << RingPixel, BodyPixel("Earth", FALSE), BodyPixel("Mars", FALSE) >>
        /\ CellAt(grid, c) = Some(BodyPixel("Earth", FALSE))

\* C2: for every panel, the zero panel included, the grid has GridH rows of
\* GridW cells, both at least 1, and a put_pixel call changes no cell but
\* the one at its coordinates: a call whose coordinates are negative or not
\* below the dimensions leaves the whole grid as it was.
C2_WritesStayInGrid ==
    /\ GridW(area) >= 1
    /\ GridH(area) >= 1
    /\ Len(grid) = GridH(area)
    /\ \A y \in 1..Len(grid) : Len(grid[y]) = GridW(area)
    /\ last_op.op = "put_pixel" =>
         IF /\ 0 <= last_op.x /\ last_op.x < GridW(area)
            /\ 0 <= last_op.y /\ last_op.y < GridH(area)
         THEN \A c \in Cells(grid) :
                  c # << last_op.x, last_op.y >> => CellAt(grid, c) = CellAt(prev_grid, c)
         ELSE grid = prev_grid

\* On the 1 x 1 grid of the zero panel, a call at (1, -1), out of range on
\* both axes, has left the written cell alone.
C2_Witness ==
    /\ area = << 0, 0 >>
    /\ Len(grid) = 1
    /\ Len(grid[1]) = 1
    /\ last_op = [ op |-> "put_pixel", x |-> 1, y |-> -1 ]
    /\ IsSome(grid[1][1])
    /\ grid = prev_grid

\* C3: between the commit of a cycle and the fetches of the next, every
\* body but the Sun has the vector of its most recent successful fetch, and
\* none if no fetch for it succeeded: a failed fetch leaves the body's
\* position, and every other body's, as it was.
C3_PositionIsLastSuccessfulFetch ==
    upc \in { "sleep", "start" } =>
        \A i \in 1..Len(bodies) :
            bodies[i].id # "10" => bodies[i].pos_au = fetched[i]

\* The second cycle committed after Mars's fetch failed in it: Mars keeps the
\* vector of the first cycle, Earth has the vector of the second.
C3_Witness ==
    /\ upc = "sleep"
    /\ cycle = 2
    /\ \E k \in 1..Len(cyc_failed) : cyc_failed[k][1] = "Mars"
    /\ bodies[BodyIndex("Mars")].pos_au = Some(NominalVec("Mars", 1))
    /\ bodies[BodyIndex("Earth")].pos_au = Some(NominalVec("Earth", 2))

\* C4: once a cycle has committed, the status is "OK" if every fetch of the
\* cycle succeeded, whatever happened in earlier cycles, and otherwise the
\* message of the most recent failure of the cycle: the last body whose
\* fetch failed, with its error.
C4_StatusIsLastFailureOfCycle ==
    upc = "sleep" =>
        status = IF cyc_failed = << >> THEN StatusOK
                 ELSE FetchError(cyc_failed[Len(cyc_failed)][1],
                                 cyc_failed[Len(cyc_failed)][2])

\* A cycle in which Venus's fetch and then Mars's failed: the committed
\* status is Mars's failure.
C4_Witness ==
    /\ upc = "sleep"
    /\ Len(cyc_failed) = 2
    /\ cyc_failed[1][1] = "Venus"
    /\ cyc_failed[2][1] = "Mars"
    /\ status = FetchError("Mars", cyc_failed[2][2])

\* The names the updater is fetching in this cycle.
SnapshotNames == { bodies_snapshot[k][1] : k \in 1..Len(bodies_snapshot) }

\* C5, as stated: in every state, from program start on, the Sun's position
\* is the origin, and the Sun is neither fetched nor given a fetched vector.
C5_SunAlwaysAtOrigin ==
    /\ bodies[BodyIndex("Sun")].pos_au = Some(Origin)
    /\ "Sun" \notin SnapshotNames
    /\ "Sun" \notin DOMAIN new_positions

\* C5, what the program does: the Sun has no position until the first cycle
\* commits and is at the origin from then on; it is never fetched.
C5_SunAtOriginOnceCommitted ==
    /\ bodies[BodyIndex("Sun")].pos_au =
         IF last_update_utc = None THEN None ELSE Some(Origin)
    /\ "Sun" \notin SnapshotNames
    /\ "Sun" \notin DOMAIN new_positions
    /\ fetched[BodyIndex("Sun")] = None

\* The first cycle is fetching, the Sun not among its bodies, and the Sun
\* still has no position.
C5_Witness ==
    /\ cycle = 1
    /\ upc = "fetch"
    /\ Len(bodies_snapshot) = Len(BODIES) - 1
    /\ "Earth" \in DOMAIN new_positions
    /\ bodies[BodyIndex("Sun")].pos_au = None

\* C6: after any sequence of keys the zoom factor is in [0.2, 50.0], and a
\* zoom key whose step leaves the range gives exactly the limit it crossed.
C6_ZoomWithinLimits ==
    /\ F64Le(ZOOM_MIN, zoom)
    /\ F64Le(zoom, ZOOM_MAX)
    /\ (last_key \in { "+", "=" } /\ F64Lt(ZOOM_MAX, F64Mul(prev_view[1], ZOOM_STEP)))
         => zoom = ZOOM_MAX
    /\ (last_key = "-" /\ F64Lt(F64Div(prev_view[1], ZOOM_STEP), ZOOM_MIN))
         => zoom = ZOOM_MIN
    /\ last_key = "0" => zoom = InitialZoom

\* A zoom-in from below the maximum whose step passes it.
C6_Witness ==
    /\ last_key = "+"
    /\ F64Lt(prev_view[1], ZOOM_MAX)
    /\ F64Lt(ZOOM_MAX, F64Mul(prev_view[1], ZOOM_STEP))
    /\ zoom = ZOOM_MAX

\* C7: after any sequence of keys the focus index is an index of
\* FOCUS_LEVELS; '[' at index 0 and ']' at the last index leave it, and
\* elsewhere they move it by one.
C7_FocusIndexInRange ==
    /\ focus_index \in 0..(Len(FOCUS_LEVELS) - 1)
    /\ last_key = "[" =>
         focus_index = IF prev_view[2] = 0 THEN 0 ELSE prev_view[2] - 1
    /\ last_key = "]" =>
         focus_index = IF prev_view[2] = Len(FOCUS_LEVELS) - 1
                       THEN prev_view[2] ELSE prev_view[2] + 1
    /\ last_key = "0" => focus_index = Len(FOCUS_LEVELS) - 1

\* ']' pressed at the last index.
C7_Witness ==
    /\ last_key = "]"
    /\ prev_view[2] = Len(FOCUS_LEVELS) - 1
    /\ focus_index = Len(FOCUS_LEVELS) - 1

\* The clone the frame is drawn from.
FrameState == Unwrap(snapshot)

\* The scale and the centre of the frame.
FrameScale == Scale(GridW(area), GridH(area), FrameState.focus_index, FrameState.zoom)
FrameCentre == << GridW(area) \div 2, GridH(area) \div 2 >>

\* The cell body i of the clone projects to.
BodyCell(i) ==
    Project(Unwrap(FrameState.bodies[i].pos_au), FrameCentre[1], FrameCentre[2],
            FrameScale)

\* The samples of draw_ring for a ring of radius r about the frame's centre:
\* for each sample of the loop the cells it may be, and no sample when the
\* radius is below one cell.
RingSamples(r) ==
    IF F64Lt(r, F64One) THEN { }
    ELSE { RingPoint(FrameCentre[1], FrameCentre[2], r, RingSteps(r), i) :
             i \in 0..(RingSteps(r) - 1) }

\* The cells a sample of the ring may be.
SamplesOf(r) == UNION RingSamples(r)

\* The cells that are a sample of the ring whatever cos and sin return.
SureSamplesOf(r) == UNION { P \in RingSamples(r) : Cardinality(P) = 1 }

\* The radius in cells of the ring of the orbit of the body `name`.
OrbitRadius(name) == F64Mul(Unwrap(Unwrap(meta_by_name(name)).orbit_au), FrameScale)

\* The cells a sample of the ring of the orbit of the body `name` may be.
RingCells(name) == SamplesOf(OrbitRadius(name))

\* Scenario A: an 80 x 24 panel, focus Earth, zoom 1.0, Earth at (1, 0, 0).
ScenarioA ==
    /\ area = << 80, 24 >>
    /\ FOCUS_LEVELS[FrameState.focus_index + 1][1] = "Earth"
    /\ FrameState.zoom = F64One
    /\ FrameState.bodies[BodyIndex("Earth")].pos_au
         = Some(Vec3(F64One, F64Zero, F64Zero))

\* C8: in a rendered frame, every cell of the grid that a body with a known
\* position projects to holds a pixel of the bodies' priority, never a ring
\* dot; in Scenario A the cell Earth projects to, which is also a sample of
\* Earth's ring, holds Earth's marker, and a sample of Earth's ring holds a
\* ring dot.
C8_BodyOverridesRing ==
    last_op.op = "render" =>
        /\ \A i \in 1..Len(FrameState.bodies) :
               (IsSome(FrameState.bodies[i].pos_au) /\ BodyCell(i) \in Cells(grid)) =>
                   /\ IsSome(CellAt(grid, BodyCell(i)))
                   /\ Unwrap(CellAt(grid, BodyCell(i))).priority = BODY_PRIORITY
        /\ ScenarioA =>
               /\ BodyCell(BodyIndex("Earth"))
                    \in Cells(grid) \cap SureSamplesOf(OrbitRadius("Earth"))
               /\ CellAt(grid, BodyCell(BodyIndex("Earth")))
                    = Some(BodyPixel("Earth", FrameState.use_unicode_icons))
               /\ \E c \in Cells(grid) \cap SureSamplesOf(OrbitRadius("Earth")) :
                      CellAt(grid, c) = Some(RingPixel)

\* The frame of Scenario A: Earth's marker at (49, 11), ten cells right of
\* the centre, and a dot of Earth's ring at (39, 1), ten rows above it.
C8_Witness ==
    /\ last_op.op = "render"
    /\ ScenarioA
    /\ BodyCell(BodyIndex("Earth")) = << 49, 11 >>
    /\ { << 49, 11 >> } \in RingSamples(OrbitRadius("Earth"))
    /\ << 49, 11 >> \in RingCells("Earth")
    /\ CellAt(grid, << 49, 11 >>) = Some(BodyPixel("Earth", FALSE))
    /\ { << 39, 1 >> } \in RingSamples(OrbitRadius("Earth"))
    /\ CellAt(grid, << 39, 1 >>) = Some(RingPixel)

\* The body list without its i-th body.
WithoutBody(bs, i) == SubSeq(bs, 1, i - 1) \o SubSeq(bs, i + 1, Len(bs))

\* C9: a rendered frame is a grid render_map_block builds from the same
\* clone with any one of the bodies without a position removed from the list.
C9_UnknownBodyWritesNothing ==
    last_op.op = "render" =>
        \A i \in 1..Len(FrameState.bodies) :
            ~IsSome(FrameState.bodies[i].pos_au) =>
                grid \in RenderFrame(area, WithoutBody(FrameState.bodies, i),
                                     FrameState.focus_index, FrameState.zoom,
                                     FrameState.use_unicode_icons)

\* A frame of the 80 x 24 panel taken before the first commit, when no body
\* has a position: the grid holds the Sun's marker of the Sun's priority at
\* the centre, and no body's marker.
C9_Witness ==
    /\ last_op.op = "render"
    /\ area = << 80, 24 >>
    /\ \A i \in 1..Len(FrameState.bodies) : ~IsSome(FrameState.bodies[i].pos_au)
    /\ CellAt(grid, FrameCentre) = Some(SunPixel(FrameState.use_unicode_icons))
    /\ \A c \in Cells(grid) :
           IsSome(CellAt(grid, c)) => Unwrap(CellAt(grid, c)).priority # BODY_PRIORITY

\* C10: a draw_ring of a radius below one cell, about any centre and on any
\* grid, leaves the grid as it was.
C10_SmallRingWritesNothing ==
    (last_op.op = "draw_ring" /\ F64Lt(last_op.r, F64One)) => grid = prev_grid

\* A ring of radius 0.999999 about an empty cell of a grid that holds the
\* dots of a larger ring: the cell is still empty.
C10_Witness ==
    /\ last_op.op = "draw_ring"
    /\ last_op.r = Dec(999999, 6)
    /\ << last_op.x, last_op.y >> \in Cells(grid)
    /\ CellAt(grid, << last_op.x, last_op.y >>) = None
    /\ \E c \in Cells(grid) : CellAt(grid, c) = Some(RingPixel)
    /\ grid = prev_grid

----------------------------------------------------------------------------
(* The projection of the body on the focus orbit.                           *)

\* Zoom keys pressed before the projection: enough to reach both limits
\* (1.25^18 > 50, 1.25^-8 < 0.2).
MaxProjectKeys == 18

\* Panels from the zero panel to 200 x 60, wide, square and tall.
ProjectPanels == { 0, 9, 80, 200 } \X { 0, 9, 60 }

\* The name of the focus level fi.
FocusName(fi) == FOCUS_LEVELS[fi + 1][1]

\* The draw of a clone of the state after a first cycle without failure,
\* which leaves every body on the positive X axis at its orbit's radius,
\* under any view.
InitProjects ==
    /\ \E s \in { SleepState(InitialBodies, 1, {}, 0) } :
        /\ bodies = s.bodies
        /\ last_update_utc = s.last_update_utc
        /\ status = s.status
        /\ upc = s.upc
        /\ now_label = s.now_label
        /\ bodies_snapshot = s.bodies_snapshot
        /\ snap_i = s.snap_i
        /\ new_positions = s.new_positions
        /\ cyc_status = s.cyc_status
        /\ cycle = s.cycle
        /\ fetched = s.fetched
        /\ cyc_failed = s.cyc_failed
        /\ failures = s.failures
    /\ use_unicode_icons = FALSE
    /\ zoom \in ZoomsWithin(MaxProjectKeys)
    /\ focus_index \in 0..(Len(FOCUS_LEVELS) - 1)
    /\ InitKeys
    /\ InitDrawing
    /\ InitGrid(ProjectPanels)

\* The planets loop's coordinates for the body of the focus orbit, in the
\* draw of the clone.
ProjectFocus ==
    /\ mpc = "draw"
    /\ last_op = NoOp
    /\ LET c == BodyCell(BodyIndex(FocusName(FrameState.focus_index)))
       IN  last_op' = [ op |-> "project", x |-> c[1], y |-> c[2] ]
    /\ UNCHANGED << area, grid, written, prev_grid, appVars, updVars, keyVars, syncVars >>

SpecProject == InitProjects /\ [][ProjectFocus]_vars

\* 0.45 * min(w, h) * zoom
FocusRadiusCells ==
    F64Mul(F64Mul(FIT, FromInt(Min(GridW(area), GridH(area)))), FrameState.zoom)

\* C11: for every grid, focus level and zoom in the clamped range, the body
\* at (R_focus, 0, 0) is projected to the row cy = h / 2 and to a column at
\* most one away from cx + round(0.45 * min(w, h) * zoom), cx = w / 2.
C11_FocusBodyWithinOneCell ==
    last_op.op = "project" =>
        /\ FrameState.bodies[BodyIndex(FocusName(FrameState.focus_index))].pos_au
             = Some(Vec3(FocusAu(FrameState.focus_index), F64Zero, F64Zero))
        /\ last_op.y = GridH(area) \div 2
        /\ Abs(last_op.x - ((GridW(area) \div 2) + RoundI32(FocusRadiusCells))) <= 1

\* Saturn's orbit in focus on the 198 x 58 grid at the maximum zoom: Saturn
\* is projected to the column 99 + 1305, far outside the grid, on row 29.
C11_Witness ==
    /\ last_op.op = "project"
    /\ area = << 200, 60 >>
    /\ FocusName(FrameState.focus_index) = "Saturn"
    /\ FrameState.zoom = ZOOM_MAX
    /\ last_op.y = 29
    /\ last_op.x = 99 + 1305

----------------------------------------------------------------------------
(* The program: the updater task and main's loop, which share AppState      *)
(* through the Mutex.  A step that takes the lock waits for it to be free;  *)
(* the step after it is the critical section and ends with the release.     *)

\* Bounds of the runs of the two tasks together: cycles started, fetches
\* that fail, keys handled under the lock, frames drawn.
MaxSyncCycles == 1
MaxSyncFailures == 1
MaxSyncKeys == 1
MaxSyncFrames == 2

SyncPanels == { << 12, 9 >> }

\* The keys whose handler takes the lock.
LockKeys == { "+", "=", "-", "0", "[", "]" }

\* now_label, and state.lock() of the snapshot block.
UpdaterLockSnapshot ==
    /\ running
    /\ upc = "start"
    /\ cycle < MaxSyncCycles
    /\ lock = "free"
    /\ lock' = "updater"
    /\ upc' = "snap"
    /\ cycle' = cycle + 1
    /\ now_label' = cycle + 1
    /\ UNCHANGED << bodies_snapshot, snap_i, new_positions, cyc_status, fetched,
                    cyc_failed, failures, appVars, keyVars, gridVars,
                    mpc, pending, snapshot, nkeys, nframes >>

\* A snapshot block that keeps its guard alive, so that the lock is held
\* during the fetches.
UpdaterSnapshotHolding ==
    /\ running
    /\ upc = "snap"
    /\ lock = "updater"
    /\ bodies_snapshot' = BodiesSnapshot(bodies)
    /\ snap_i' = 0
    /\ new_positions' = EmptyMap
    /\ cyc_status' = CycleStatus(status)
    /\ cyc_failed' = << >>
    /\ upc' = IF Len(BodiesSnapshot(bodies)) = 0 THEN "commit" ELSE "fetch"
    /\ UNCHANGED << now_label, cycle, fetched, failures, appVars, keyVars, gridVars,
                    syncVars >>

\* The snapshot block: the list of bodies to fetch is read and the lock is
\* released; then the cycle's empty map and its "OK" status.
UpdaterSnapshot ==
    /\ running
    /\ upc = "snap"
    /\ lock = "updater"
    /\ bodies_snapshot' = BodiesSnapshot(bodies)
    /\ lock' = "free"
    /\ snap_i' = 0
    /\ new_positions' = EmptyMap
    /\ cyc_status' = CycleStatus(status)
    /\ cyc_failed' = << >>
    /\ upc' = IF Len(BodiesSnapshot(bodies)) = 0 THEN "commit" ELSE "fetch"
    /\ UNCHANGED << now_label, cycle, fetched, failures, appVars, keyVars, gridVars,
                    mpc, pending, snapshot, nkeys, nframes >>

\* A fetch returns an error, with its 120 ms sleep.
UpdaterFetchErr == failures < MaxSyncFailures /\ FetchErr

\* state.lock() of the commit block.
UpdaterLockCommit ==
    /\ running
    /\ upc = "commit"
    /\ lock = "free"
    /\ lock' = "updater"
    /\ upc' = "write"
    /\ UNCHANGED << now_label, bodies_snapshot, snap_i, new_positions, cyc_status,
                    cycle, fetched, cyc_failed, failures, appVars, keyVars, gridVars,
                    mpc, pending, snapshot, nkeys, nframes >>

\* A commit block that writes the view back as the program started it.
UpdaterCommitResetView ==
    /\ running
    /\ upc = "write"
    /\ lock = "updater"
    /\ bodies' = CommitBodies(bodies, new_positions)
    /\ last_update_utc' = Some(now_label)
    /\ status' = cyc_status
    /\ zoom' = InitialZoom
    /\ focus_index' = InitialFocus
    /\ lock' = "free"
    /\ upc' = "sleep"
    /\ UNCHANGED << use_unicode_icons, now_label, bodies_snapshot,
                    snap_i, new_positions, cyc_status, cycle, fetched, cyc_failed,
                    failures, keyVars, gridVars, mpc, pending, snapshot, nkeys, nframes >>

\* The commit block: positions, last_update_utc and status are written and
\* the lock is released.
UpdaterCommit ==
    /\ running
    /\ upc = "write"
    /\ lock = "updater"
    /\ bodies' = CommitBodies(bodies, new_positions)
    /\ last_update_utc' = Some(now_label)
    /\ status' = cyc_status
    /\ lock' = "free"
    /\ upc' = "sleep"
    /\ UNCHANGED << use_unicode_icons, zoom, focus_index, now_label, bodies_snapshot,
                    snap_i, new_positions, cyc_status, cycle, fetched, cyc_failed,
                    failures, keyVars, gridVars, mpc, pending, snapshot, nkeys, nframes >>

\* state.lock() of `let snapshot = { state.lock().unwrap().clone() }`.
MainLockSnapshot ==
    /\ running
    /\ mpc = "lock_snapshot"
    /\ nframes < MaxSyncFrames
    /\ lock = "free"
    /\ lock' = "main"
    /\ mpc' = "clone"
    /\ UNCHANGED << appVars, updVars, keyVars, gridVars, pending, snapshot, nkeys, nframes >>

\* .clone(), and the guard dropped at the end of the block.
MainClone ==
    /\ mpc = "clone"
    /\ lock = "main"
    /\ snapshot' = Some(CloneState)
    /\ lock' = "free"
    /\ mpc' = "draw"
    /\ UNCHANGED << appVars, updVars, keyVars, gridVars, pending, nkeys, nframes >>

\* terminal.draw(|f| draw_ui(f, &snapshot)): the map of the snapshot.
MainDraw ==
    /\ mpc = "draw"
    /\ grid' \in RenderFrame(area, Unwrap(snapshot).bodies,
                             Unwrap(snapshot).focus_index, Unwrap(snapshot).zoom,
                             Unwrap(snapshot).use_unicode_icons)
    /\ last_op' = [ op |-> "render" ]
    /\ prev_grid' = grid
    /\ nframes' = nframes + 1
    /\ mpc' = "poll"
    /\ UNCHANGED << area, written, appVars, updVars, keyVars, lock, pending, snapshot, nkeys >>

\* event::poll times out, or the event is no key or a key without a handler.
MainPollNone ==
    /\ mpc = "poll"
    /\ mpc' = "lock_snapshot"
    /\ snapshot' = None
    /\ UNCHANGED << appVars, updVars, keyVars, gridVars, lock, pending, nkeys, nframes >>

\* event::read returns a key whose handler takes the lock.
MainPollKey ==
    /\ mpc = "poll"
    /\ nkeys < MaxSyncKeys
    /\ \E k \in LockKeys : pending' = k
    /\ mpc' = "lock_key"
    /\ UNCHANGED << appVars, updVars, keyVars, gridVars, lock, snapshot, nkeys, nframes >>

\* 'q': break
MainQuit ==
    /\ mpc = "poll"
    /\ running' = FALSE
    /\ last_key' = "q"
    /\ prev_view' = << zoom, focus_index >>
    /\ mpc' = "done"
    /\ snapshot' = None
    /\ UNCHANGED << appVars, updVars, gridVars, lock, pending, nkeys, nframes >>

\* state.lock() of a key's handler.
MainLockKey ==
    /\ mpc = "lock_key"
    /\ lock = "free"
    /\ lock' = "main"
    /\ mpc' = "apply"
    /\ UNCHANGED << appVars, updVars, keyVars, gridVars, pending, snapshot, nkeys, nframes >>

\* The zoom and the focus index the handler of key k leaves.
KeyZoom(k, z) ==
    CASE k \in { "+", "=" } -> ZoomIn(z)
      [] k = "-" -> ZoomOut(z)
      [] k = "0" -> F64One
      [] OTHER -> z

KeyFocus(k, fi) ==
    CASE k = "[" -> FocusIn(fi)
      [] k = "]" -> FocusOut(fi)
      [] k = "0" -> Len(FOCUS_LEVELS) - 1
      [] OTHER -> fi

\* The handler's body, and the guard dropped at the end of the arm.
MainApply ==
    /\ mpc = "apply"
    /\ lock = "main"
    /\ zoom' = KeyZoom(pending, zoom)
    /\ focus_index' = KeyFocus(pending, focus_index)
    /\ last_key' = pending
    /\ prev_view' = << zoom, focus_index >>
    /\ pending' = "none"
    /\ nkeys' = nkeys + 1
    /\ lock' = "free"
    /\ mpc' = "lock_snapshot"
    /\ snapshot' = None
    /\ UNCHANGED << bodies, last_update_utc, status, use_unicode_icons, running,
                    updVars, gridVars, nframes >>

UpdaterTask ==
    \/ UpdaterLockSnapshot \/ UpdaterSnapshot \/ FetchOk \/ UpdaterFetchErr
    \/ UpdaterLockCommit \/ UpdaterCommit \/ CycleSleep

MainLoop ==
    \/ MainLockSnapshot \/ MainClone \/ MainDraw \/ MainPollNone \/ MainPollKey
    \/ MainQuit \/ MainLockKey \/ MainApply

InitSpec ==
    /\ \E u \in { FALSE } : InitApp(u)
    /\ InitUpdater /\ InitKeys /\ InitSync /\ InitGrid(SyncPanels)

Next == UpdaterTask \/ MainLoop

Spec == InitSpec /\ [][Next]_vars

\* A frame: main takes the lock, clones the state and releases the lock, then
\* draws the clone.  The updater's commit may come before, between or after.
Frame ==
    \/ MainLockSnapshot \/ MainClone \/ MainDraw
    \/ UpdaterLockCommit \/ UpdaterCommit

SpecFrame == InitFrames /\ [][Frame]_vars

\* The steps that end a critical section.
UpdaterRelease == UpdaterSnapshot \/ UpdaterCommit
MainRelease == MainClone \/ MainApply

\* C12: in every interleaving, the updater holds the lock exactly in its
\* snapshot block and its commit block, and main exactly in its clone and
\* in a key's handler: never while a fetch is in flight or the updater
\* sleeps, never during a draw or a poll.  The holder's next step releases
\* the lock and waits for nothing; so whenever main is about to take its
\* snapshot or to handle a key while a fetch has not returned, it can.
C12_LockHeldOnlyInShortSections ==
    /\ lock \in { "free", "updater", "main" }
    /\ lock = "updater" <=> upc \in { "snap", "write" }
    /\ lock = "main" <=> mpc \in { "clone", "apply" }
    /\ (running /\ lock = "updater") => ENABLED UpdaterRelease
    /\ lock = "main" => ENABLED MainRelease
    /\ (running /\ upc \in { "fetch", "sleep" } /\ mpc = "lock_snapshot"
          /\ nframes < MaxSyncFrames) => ENABLED MainLockSnapshot
    /\ (upc \in { "fetch", "sleep" } /\ mpc = "lock_key") => ENABLED MainLockKey

\* The first fetch of the cycle has not returned, and main has drawn two
\* frames and is in the handler of a key, holding the lock.
C12_Witness ==
    /\ upc = "fetch"
    /\ snap_i = 0
    /\ nframes = 2
    /\ mpc = "apply"
    /\ lock = "main"

\* C13: in every step of every interleaving, positions, timestamp and
\* status change only in the updater's commit, which leaves zoom, focus
\* index and icon style; zoom and focus index change only in a key's
\* handler, which leaves positions, timestamp and status; the icon style
\* never changes, and a draw changes no field of the state.
C13_SingleWriterPerField ==
    [][ /\ (<< bodies, last_update_utc, status >>' # << bodies, last_update_utc, status >>)
            => (upc = "write" /\ UNCHANGED << zoom, focus_index >>)
        /\ (upc = "write" /\ upc' = "sleep") => UNCHANGED << zoom, focus_index >>
        /\ (<< zoom, focus_index >>' # << zoom, focus_index >>)
            => (mpc = "apply" /\ UNCHANGED << bodies, last_update_utc, status >>)
        /\ (mpc = "apply" /\ mpc' = "lock_snapshot")
            => UNCHANGED << bodies, last_update_utc, status >>
        /\ UNCHANGED use_unicode_icons
        /\ (mpc = "draw" /\ mpc' = "poll") => UNCHANGED appVars
      ]_vars

\* A zoom-in handled while the cycle was fetching: main's clone, taken before
\* the commit, has the new zoom and no position, and after the commit the
\* state has the new zoom and the cycle's positions.
C13_Witness ==
    /\ upc = "sleep"
    /\ last_key = "+"
    /\ IsSome(snapshot)
    /\ Unwrap(snapshot).bodies = InitialBodies
    /\ Unwrap(snapshot).zoom = ZoomIn(InitialZoom)
    /\ zoom = ZoomIn(InitialZoom)
    /\ bodies[BodyIndex("Earth")].pos_au = Some(NominalVec("Earth", 1))

----------------------------------------------------------------------------
(* Rings and the Sun in a frame.                                            *)

\* The test of the ring loop: body m has an orbit, no larger than the focus.
WithinFocus(m, fi) == IsSome(m.orbit_au) /\ F64Le(Unwrap(m.orbit_au), FocusAu(fi))

\* The radius in cells of the ring of body m in the frame's grid at zoom z.
RingRadius(m, z) ==
    F64Mul(Unwrap(m.orbit_au), Scale(GridW(area), GridH(area), FrameState.focus_index, z))

\* The cells of the frame's grid that draw_ring may write for body m at
\* zoom z.
RingCellsAt(m, z) == SamplesOf(RingRadius(m, z)) \cap Cells(grid)

\* The bodies whose ring puts a dot in the frame's grid at zoom z whatever
\* cos and sin return: a sample has all its cells in the grid.
RingsShownAt(z) ==
    { i \in 1..Len(BODIES) :
        /\ WithinFocus(BODIES[i], FrameState.focus_index)
        /\ \E P \in RingSamples(RingRadius(BODIES[i], z)) : P \subseteq Cells(grid) }

\* The bodies whose ring may put a dot in the frame's grid at zoom z.
RingsMayShowAt(z) ==
    { i \in 1..Len(BODIES) :
        /\ WithinFocus(BODIES[i], FrameState.focus_index)
        /\ RingCellsAt(BODIES[i], z) # { } }

\* The cells that the rings of the bodies within the focus orbit may write.
FocusRingCells ==
    UNION { RingCellsAt(BODIES[i], FrameState.zoom) :
              i \in { j \in 1..Len(BODIES) :
                        WithinFocus(BODIES[j], FrameState.focus_index) } }

\* The cells of the grid that hold a ring dot.
RingDots == { c \in Cells(grid) : CellAt(grid, c) = Some(RingPixel) }

\* Every ring dot of the grid is a sample of the ring of a body within the
\* focus orbit.
RingDotsWithinFocus == RingDots \subseteq FocusRingCells

\* C14, as stated: in a rendered frame ring dots come only from bodies
\* within the focus orbit, and which rings are visible depends on the focus
\* level alone: a ring that shows at the frame's zoom may show at any other
\* zoom, and a ring that shows at another zoom may show at the frame's.
C14_RingsVisibleByFocusAlone ==
    last_op.op = "render" =>
        /\ RingDotsWithinFocus
        /\ \A z \in ZoomsWithin(MaxFrameKeys) :
               /\ RingsShownAt(z) \subseteq RingsMayShowAt(FrameState.zoom)
               /\ RingsShownAt(FrameState.zoom) \subseteq RingsMayShowAt(z)

\* C14, amended: in a rendered frame ring dots come only from bodies within
\* the focus orbit (never the Sun, never a larger orbit); the focus level
\* alone decides which rings are handed to draw_ring, and such a ring
\* shows, at every sample inside the grid, exactly when its radius at the
\* frame's zoom is one cell or more.
C14_RingsOnlyWithinFocus ==
    last_op.op = "render" =>
        /\ RingDotsWithinFocus
        /\ \A i \in 1..Len(BODIES) :
               WithinFocus(BODIES[i], FrameState.focus_index) =>
                   /\ \A P \in RingSamples(RingRadius(BODIES[i], FrameState.zoom)) :
                          \E c \in P : c \in Cells(grid) => IsSome(CellAt(grid, c))
                   /\ F64Lt(RingRadius(BODIES[i], FrameState.zoom), F64One)
                        => RingCellsAt(BODIES[i], FrameState.zoom) = { }

\* Neptune in focus on the 10 x 7 grid at zoom 1.0: Saturn's orbit is within
\* the focus but its ring, 0.999 cells, is not drawn, while Uranus's and
\* Neptune's are; at zoom 1.25 Saturn's ring shows too.
C14_Witness ==
    /\ last_op.op = "render"
    /\ area = << 12, 9 >>
    /\ FocusName(FrameState.focus_index) = "Neptune"
    /\ FrameState.zoom = F64One
    /\ RingsShownAt(FrameState.zoom) = { BodyIndex("Uranus"), BodyIndex("Neptune") }
    /\ RingsMayShowAt(FrameState.zoom) = RingsShownAt(FrameState.zoom)
    /\ BodyIndex("Saturn") \in RingsShownAt(ZoomIn(FrameState.zoom))
    /\ \E c \in Cells(grid) : CellAt(grid, c) = Some(RingPixel)

\* C16: in every rendered frame the centre cell holds the Sun's glyph and
\* colour, whatever bodies project onto it.
C16_SunAtCentre ==
    last_op.op = "render" =>
        /\ IsSome(CellAt(grid, FrameCentre))
        /\ Unwrap(CellAt(grid, FrameCentre)).ch
             = icon_for(Unwrap(meta_by_name("Sun")), FrameState.use_unicode_icons)
        /\ Unwrap(CellAt(grid, FrameCentre)).color = Unwrap(meta_by_name("Sun")).color

\* A frame after a commit in which Earth and Mars, both with a position,
\* project onto the centre cell: the cell holds the Sun's marker, drawn
\* first of the bodies.
C16_Witness ==
    /\ last_op.op = "render"
    /\ IsSome(FrameState.bodies[BodyIndex("Earth")].pos_au)
    /\ IsSome(FrameState.bodies[BodyIndex("Mars")].pos_au)
    /\ BodyCell(BodyIndex("Earth")) = FrameCentre
    /\ BodyCell(BodyIndex("Mars")) = FrameCentre
    /\ CellAt(grid, FrameCentre) = Some(BodyPixel("Sun", FrameState.use_unicode_icons))

----------------------------------------------------------------------------
(* The ring loop at zoom 1.0.                                               *)

\* The largest side of the panels of the ring loop's runs.
MaxSide == 12

FocusRingPanels == ((0..MaxSide) \X (0..MaxSide)) \cup { << 80, 24 >> }

\* The draw of a clone taken before the first commit, at zoom 1.0 and any
\* focus level.
InitFocusRing ==
    /\ bodies = InitialBodies
    /\ last_update_utc = None
    /\ status = StatusStarting
    /\ use_unicode_icons = FALSE
    /\ zoom = InitialZoom
    /\ focus_index \in 0..(Len(FOCUS_LEVELS) - 1)
    /\ InitUpdater
    /\ InitKeys
    /\ InitDrawing
    /\ InitGrid(FocusRingPanels)

\* The ring loop of render_map_block on its empty grid: the rings of the
\* orbits up to the focus orbit, the focus orbit's last; r is the radius of
\* the focus orbit's.
FrameRings ==
    /\ mpc = "draw"
    /\ last_op = NoOp
    /\ grid' \in DrawRings({ EmptyGrid(GridW(area), GridH(area)) }, FrameCentre[1],
                           FrameCentre[2], FrameScale, FocusAu(FrameState.focus_index), 1)
    /\ last_op' = [ op |-> "rings", x |-> FrameCentre[1], y |-> FrameCentre[2],
                    r |-> F64Mul(FocusAu(FrameState.focus_index), FrameScale) ]
    /\ prev_grid' = grid
    /\ UNCHANGED << area, written, appVars, updVars, keyVars, syncVars >>

SpecFocusRing == InitFocusRing /\ [][FrameRings]_vars

\* The smaller side of the frame's grid.
GridMin == Min(GridW(area), GridH(area))

\* C15, as stated: at zoom 1.0, for every grid and focus level, every
\* sample of the focus orbit's ring is a cell of the grid, or may be one.
C15_FocusRingInsideGrid ==
    last_op.op = "rings" =>
        \A P \in RingSamples(last_op.r) : P \cap Cells(grid) # { }

\* C15, what the program does: every cell a sample of the focus orbit's ring
\* may be is inside the grid, except when the grid's smaller side is 4, 6, 8
\* or 10: the ring then reaches one cell past the last column or row.  The
\* sample there is dropped whatever cos and sin return, unless the grid is
\* 10 rows high and wider than that: the one such sample is then the one at
\* three quarters of a turn, 5 or 4 rows below the centre as sin returns
\* -1.0 or its neighbour.
C15_FocusRingInsideUnlessSmallEven ==
    last_op.op = "rings" =>
        /\ (SamplesOf(last_op.r) \subseteq Cells(grid))
             <=> GridMin \notin { 4, 6, 8, 10 }
        /\ (\E P \in RingSamples(last_op.r) : P \cap Cells(grid) = { })
             <=> (GridMin \in { 4, 6, 8 } \/ (GridMin = 10 /\ GridW(area) = 10))
        /\ SureSamplesOf(last_op.r) \cap Cells(grid) \subseteq RingDots

\* The 4 x 4 grid of a 6 x 6 panel: the ring of the focus orbit has
\* radius 1.8 about (2, 2); its first sample is (4, 2), past the last
\* column, and its sample a quarter turn on is the dot at (2, 0).
C15_Witness ==
    /\ last_op.op = "rings"
    /\ area = << 6, 6 >>
    /\ last_op.r = Dec(18, 1)
    /\ FrameCentre = << 2, 2 >>
    /\ { << 4, 2 >> } \in RingSamples(last_op.r)
    /\ << 4, 2 >> \notin Cells(grid)
    /\ CellAt(grid, << 2, 0 >>) = Some(RingPixel)

====
